---- MODULE Spec2Model ----
(***************************************************************************)
(* VitalGuard backend: the vital-sign ingestion scheduler (VitalSimulator), *)
(* the alert generator and the threshold evaluator.                        *)
(*                                                                         *)
(* Numbers are integers.  Temperatures are kept in tenths of a degree      *)
(* (36.0 C is 360), every other vital in its own unit.  An optional value  *)
(* (Python None) is the empty sequence, a present value v is <<v>>.        *)
(***************************************************************************)
EXTENDS Integers, Sequences, FiniteSets, TLC

VARIABLES
    \* the threshold evaluator called on its own
    evalValue,      \* check_threshold: the value argument
    evalBand,       \* check_threshold: the thresholds argument
    evalResult,     \* check_threshold: the returned tuple, <<>> before the call
    \* the database, committed state
    thresholdRows,  \* AlertThreshold rows: patient -> vital type -> <<band>> or <<>>
    readingRows,    \* VitalReading rows
    alertRows,      \* Alert rows
    risk,           \* Patient.risk_level
    logStatus,      \* MedicationLog.status
    acknowledged,   \* the ids of the Alert rows whose is_acknowledged is true
    logDue,         \* MedicationLog.scheduled_time < now - grace_period
    condition,      \* Patient.condition_summary: the profile keys the text contains
    twilioEnabled,  \* twilio_service.enabled: Twilio credentials are configured
    now,            \* datetime.utcnow(), in minutes; a run is short and the clock reads
                    \* the same all through it
    nextReadingId,  \* identity of the next VitalReading
    nextAlertId,    \* identity of the next Alert
    \* one coroutine per context: the background task "bg", a host coroutine "fg"
    \* that awaits start() itself, and the request handler "req"
    pc,             \* the await the coroutine is suspended at
    sess,           \* its AsyncSession: the writes not yet committed
    vital,          \* the VitalReading being processed
    vidx,           \* position in vitals_to_check
    alerts,         \* the list check_vital_and_create_alerts returns
    plist,          \* the patients fetched by the cycle
    pidx,           \* position in plist
    prisk,          \* risk_level of the Patient objects loaded in the session
    pendingLogs,    \* pending_logs of _check_missed_medications
    lidx,           \* position in pendingLogs
    alert,          \* the alert of _check_missed_medications being emitted, <<>> if none
    log,            \* what the current cycle (or request) logged and emitted, in order
    \* VitalSimulator
    running,        \* self.running
    task,           \* self._task: "None" or "bg"
    cancelReq,      \* Task.cancel() was called on "bg" and CancelledError is not yet raised
    stopPc,         \* a stop() call: "idle", "await" (suspended at await self._task) or
                    \* "ready" (the task has ended)
    stopState,      \* "called": stop() was called; "returned": it has returned; "none":
                    \* start() or run_in_background() was called since stop() was
    patient_states, \* self._patient_states
    cycles,         \* number of cycles begun
    \* the environment
    faultsLeft,     \* how many more awaited operations may raise
    requests,       \* number of POST /vitals requests received
    acking,         \* the acknowledge_alert handlers suspended at their commit: the
                    \* ids of the alerts they loaded
    acks,           \* number of acknowledgement requests received
    \* the Socket.IO server and SocketManager
    conn,           \* each connection (sid): "new", "open" or "closed"
    rooms,          \* the server's rooms: topic -> the connections in it
    patient_rooms,  \* self.patient_rooms: patient -> set of sids (no key: empty set)
    inflight,       \* the handlers suspended at their await, and what they go on with
    received,       \* the events delivered to each connection, in order
    published,      \* number of sio.emit calls made
    emitted         \* the sio.emit calls made, in order: event name, room, patient of the data

evalVars == <<evalValue, evalBand, evalResult>>

cfgVars == <<thresholdRows, logDue, condition, twilioEnabled, now>>

dbVars == <<readingRows, alertRows, risk, logStatus>>

idVars == <<nextReadingId, nextAlertId>>

ackVars == <<acknowledged, acking, acks>>

ctxVars ==
    <<pc, sess, vital, vidx, alerts, plist, pidx, prisk, pendingLogs, lidx, alert,
      log>>

schedVars == <<running, task, cancelReq, stopPc, stopState, patient_states, cycles>>

envVars == <<faultsLeft, requests>>

sockVars == <<conn, rooms, patient_rooms, inflight, received, published, emitted>>

vars ==
    <<evalVars, cfgVars, dbVars, idVars, ctxVars, schedVars, envVars, sockVars,
      ackVars>>

----------------------------------------------------------------------------
(* Optional values *)

None == <<>>

Some(v) == <<v>>

IsNone(o) == o = <<>>

Val(o) == o[1]

----------------------------------------------------------------------------
(* Bounds of the model *)

\* check_threshold is explored for every value and bound in 0..MaxVal
MaxVal == 5

\* patients in the database
NumPatients == 2

\* medication logs in the database; logs 1 and 2 belong to patient 1, logs 3 and 4 to
\* patient 2, and so on round the patients
NumLogs == 2

\* cycles the scheduler begins in a run
MaxCycles == 2

\* awaited operations that raise in a run
MaxFaults == 1

\* POST /vitals requests in a run
MaxRequests == 1

Patients == 1..NumPatients

Logs == 1..NumLogs

LogPatient(l) == (((l - 1) \div 2) % NumPatients) + 1

Carriers == {"bg", "fg"}

Ctx == Carriers \cup {"req"}

----------------------------------------------------------------------------
(* services/alert.py *)

VitalTypes == <<"heart_rate", "spo2", "temperature">>

Band(minw, maxw, minc, maxc) ==
    [min_warning |-> minw, max_warning |-> maxw,
     min_critical |-> minc, max_critical |-> maxc]

DEFAULT_THRESHOLDS ==
    [heart_rate  |-> Band(Some(50), Some(100), Some(40), Some(120)),
     spo2        |-> Band(Some(92), None, Some(88), None),
     temperature |-> Band(Some(360), Some(375), Some(350), Some(385))]

NoBreach == [severity |-> "none", breach_type |-> "none", threshold_value |-> None]

Breach(sev, kind, bound) ==
    [severity |-> sev, breach_type |-> kind, threshold_value |-> bound]

\* the variant of check_threshold that treats a value equal to a bound as a breach
check_threshold_inclusive(value, thresholds) ==
    IF IsNone(value) THEN NoBreach
    ELSE LET v == Val(value)
             min_critical == thresholds.min_critical
             max_critical == thresholds.max_critical
             min_warning == thresholds.min_warning
             max_warning == thresholds.max_warning
         IN  IF ~IsNone(min_critical) /\ v <= Val(min_critical)
                 THEN Breach("critical", "below_critical", min_critical)
             ELSE IF ~IsNone(max_critical) /\ v >= Val(max_critical)
                 THEN Breach("critical", "above_critical", max_critical)
             ELSE IF ~IsNone(min_warning) /\ v <= Val(min_warning)
                 THEN Breach("warning", "below_warning", min_warning)
             ELSE IF ~IsNone(max_warning) /\ v >= Val(max_warning)
                 THEN Breach("warning", "above_warning", max_warning)
             ELSE NoBreach

\* the variant of check_threshold that tests the warning bounds before the critical
\* ones
check_threshold_warning_first(value, thresholds) ==
    IF IsNone(value) THEN NoBreach
    ELSE LET v == Val(value)
             min_critical == thresholds.min_critical
             max_critical == thresholds.max_critical
             min_warning == thresholds.min_warning
             max_warning == thresholds.max_warning
         IN  IF ~IsNone(min_warning) /\ v < Val(min_warning)
                 THEN Breach("warning", "below_warning", min_warning)
             ELSE IF ~IsNone(max_warning) /\ v > Val(max_warning)
                 THEN Breach("warning", "above_warning", max_warning)
             ELSE IF ~IsNone(min_critical) /\ v < Val(min_critical)
                 THEN Breach("critical", "below_critical", min_critical)
             ELSE IF ~IsNone(max_critical) /\ v > Val(max_critical)
                 THEN Breach("critical", "above_critical", max_critical)
             ELSE NoBreach

check_threshold(value, thresholds) ==
    IF IsNone(value) THEN NoBreach
    ELSE LET v == Val(value)
             min_critical == thresholds.min_critical
             max_critical == thresholds.max_critical
             min_warning == thresholds.min_warning
             max_warning == thresholds.max_warning
         IN  IF ~IsNone(min_critical) /\ v < Val(min_critical)
                 THEN Breach("critical", "below_critical", min_critical)
             ELSE IF ~IsNone(max_critical) /\ v > Val(max_critical)
                 THEN Breach("critical", "above_critical", max_critical)
             ELSE IF ~IsNone(min_warning) /\ v < Val(min_warning)
                 THEN Breach("warning", "below_warning", min_warning)
             ELSE IF ~IsNone(max_warning) /\ v > Val(max_warning)
                 THEN Breach("warning", "above_warning", max_warning)
             ELSE NoBreach

----------------------------------------------------------------------------
(* Rows, sessions and events *)

RiskLevels == {"low", "medium", "high", "critical"}

\* a VitalReading object; id 0 until the object is created from the request
Reading(id, p, payload) ==
    [id |-> id, patient_id |-> p, heart_rate |-> payload.heart_rate,
     spo2 |-> payload.spo2, temperature |-> payload.temperature,
     is_anomaly |-> FALSE]

\* what the vital_readings table keeps of it (the measured values play no part here)
ReadingRow(v) == [id |-> v.id, patient_id |-> v.patient_id, is_anomaly |-> v.is_anomaly]

NoPayload == [heart_rate |-> None, spo2 |-> None, temperature |-> None]

\* an AsyncSession: rows added or changed and not yet committed, whether its
\* transaction has failed (config.py: PostgreSQL through asyncpg and SQLAlchemy), and
\* the alerts among them that a db.flush() of the alert generator or of the sweep has
\* inserted, which is when an Alert gets its id
EmptySession ==
    [readings |-> {}, alerts |-> {}, dirtyRisk |-> {}, missedLogs |-> {}, failed |-> FALSE,
     inserted |-> {}]

\* the session after a statement or a flush failed in the database: the transaction
\* is rolled back, and until rollback() is called every further call raises
FailedSession == [EmptySession EXCEPT !.failed = TRUE]

Event(ev, p, ref) == [ev |-> ev, p |-> p, ref |-> ref]

\* Session.commit(): every pending write of the session becomes durable
CommitReadings(s) == readingRows \cup s.readings

CommitAlerts(s) == alertRows \cup s.alerts

CommitRisk(s, loaded) ==
    [q \in Patients |-> IF q \in s.dirtyRisk THEN loaded[q] ELSE risk[q]]

CommitLogs(s) ==
    [l \in Logs |-> IF l \in s.missedLogs THEN "missed" ELSE logStatus[l]]

\* the awaits that only publish to the socket server; every other await of a
\* patient's processing is, or begins with, a call on the session
SocketPcs == {"emitP", "emitA", "medEmitA"}

\* the awaits that can also raise outside the database: scalar_one_or_none() of
\* get_thresholds_for_patient, and the publish that follows a refresh or a flush
MixedPcs == {"thr", "emitV", "medEmitP"}

\* the awaits of a commit
CommitPcs == {"riskCommit", "commit", "medCommit"}

\* a coroutine is resumed normally at its await unless CancelledError is about to be
\* raised there, or the await is a call on a failed session
At(c, label) ==
    /\ pc[c] = label
    /\ ~(c = "bg" /\ cancelReq)
    /\ sess[c].failed => label \in SocketPcs \cup {"close"}

----------------------------------------------------------------------------
(* services/alert.py: check_vital_and_create_alerts *)

\* the variant of get_thresholds_for_patient that has no bounds at all for a patient
\* with no row
get_thresholds_or_nothing(p, vital_type) ==
    IF thresholdRows[p][vital_type] # <<>>
        THEN thresholdRows[p][vital_type][1]
        ELSE Band(None, None, None, None)

get_thresholds_for_patient(p, vital_type) ==
    IF thresholdRows[p][vital_type] # <<>>
        THEN thresholdRows[p][vital_type][1]
        ELSE DEFAULT_THRESHOLDS[vital_type]

\* the variant of NextVital that stops the loop over vitals_to_check after its first
\* entry with a value
NextVitalOnce(v, n) ==
    LET S == {m \in n..Len(VitalTypes) : ~IsNone(v[VitalTypes[m]])}
    IN  IF S = {} \/ n > 1 THEN Len(VitalTypes) + 1
        ELSE CHOOSE m \in S : \A k \in S : m <= k

\* the next entry of vitals_to_check, from position n on, whose value is not None;
\* Len(VitalTypes) + 1 when there is none
NextVital(v, n) ==
    LET S == {m \in n..Len(VitalTypes) : ~IsNone(v[VitalTypes[m]])}
    IN  IF S = {} THEN Len(VitalTypes) + 1
        ELSE CHOOSE m \in S : \A o \in S : m <= o

AlertLoopPc(n) == IF n <= Len(VitalTypes) THEN "thr" ELSE "flush2"

VitalAlert(id, v, vital_type, br, sent) ==
    [id |-> id, patient_id |-> v.patient_id, vital_reading_id |-> Some(v.id),
     alert_type |-> IF br.severity = "critical" THEN "vital_critical" ELSE "vital_warning",
     severity |-> br.severity, vital_type |-> vital_type,
     vital_value |-> v[vital_type], threshold_breached |-> br.threshold_value,
     notification_sent |-> sent, created_at |-> now]

\* twilio_service.send_whatsapp_alert: returns True, returns False, or raises.
\* Without credentials it only logs the message and returns True.
DispatchOutcomes ==
    IF twilioEnabled
    THEN {"whatsapp:sent", "whatsapp:not_sent", "whatsapp:raised"}
    ELSE {"whatsapp:sent"}

\* lines 170-181: what the dispatch of an alert of this severity can come to; "none"
\* when no dispatch is made
Dispatch(severity) == IF severity = "critical" THEN DispatchOutcomes ELSE {"none"}

\* alert.notification_sent after lines 170-181, d being what the dispatch came to
NotificationSent(d) == d \in {"whatsapp:sent", "whatsapp:not_sent"}

\* what lines 167-181 log for alert a: its creation, then what its dispatch came to
DispatchLog(a, d) ==
    <<Event("alert_created", a.patient_id, a.id)>> \o
        (IF d = "none" THEN <<>> ELSE <<Event(d, a.patient_id, a.id)>>)

\* the variant of DispatchPc in which a dispatch that raises ends the loop over
\* vitals_to_check
DispatchPcBreak(d) == IF d = "whatsapp:raised" THEN "flush2" ELSE "emitP"

\* the await that follows lines 170-181: the exception of a dispatch is caught and
\* logged, and whatever the dispatch came to the alert is published next (line 185)
DispatchPc(d) == "emitP"

\* db.flush() of the reading (line 233, or line 62 of routers/vitals.py) and then
\* select(User) returned, two awaits with nothing in between: the loop over
\* vitals_to_check begins
Flush1(c) ==
    /\ At(c, "flush1")
    /\ LET n == NextVital(vital[c], 1)
       IN  /\ vidx' = [vidx EXCEPT ![c] = n]
           /\ pc' = [pc EXCEPT ![c] = AlertLoopPc(n)]
    /\ UNCHANGED <<sess, vital, alerts, plist, pidx, prisk, pendingLogs, lidx, alert, log>>
    /\ UNCHANGED <<evalVars, cfgVars, ackVars, sockVars, dbVars, idVars, schedVars, envVars>>

\* get_thresholds_for_patient returned: evaluate, create the alert, dispatch, emit
Thr(c) ==
    /\ At(c, "thr")
    /\ LET v == vital[c]
           vital_type == VitalTypes[vidx[c]]
           br == check_threshold(v[vital_type],
                                 get_thresholds_for_patient(v.patient_id, vital_type))
       IN  IF br.severity = "none"
           THEN LET n == NextVital(v, vidx[c] + 1)
                IN  /\ vidx' = [vidx EXCEPT ![c] = n]
                    /\ pc' = [pc EXCEPT ![c] = AlertLoopPc(n)]
                    /\ UNCHANGED <<sess, alerts, log, nextAlertId>>
           ELSE \E d \in Dispatch(br.severity) :
                LET a == VitalAlert(nextAlertId, v, vital_type, br, NotificationSent(d))
                IN  /\ sess' = [sess EXCEPT ![c].alerts = @ \cup {a}]
                    /\ alerts' = [alerts EXCEPT ![c] = Append(@, a)]
                    /\ nextAlertId' = nextAlertId + 1
                    /\ log' = [log EXCEPT ![c] = @ \o DispatchLog(a, d)]
                    /\ pc' = [pc EXCEPT ![c] = DispatchPc(d)]
                    /\ UNCHANGED vidx
    /\ UNCHANGED <<vital, plist, pidx, prisk, pendingLogs, lidx, alert>>
    /\ UNCHANGED <<evalVars, cfgVars, ackVars, sockVars, dbVars, nextReadingId, schedVars, envVars>>

\* socket_manager.emit_alert: sio.emit("alert:new", room=patient:<id>) returned
EmitP(c) ==
    /\ At(c, "emitP")
    /\ LET a == alerts[c][Len(alerts[c])]
       IN  log' = [log EXCEPT ![c] = Append(@, Event("alert:new@patient", a.patient_id, a.id))]
    /\ pc' = [pc EXCEPT ![c] = "emitA"]
    /\ UNCHANGED <<sess, vital, vidx, alerts, plist, pidx, prisk, pendingLogs, lidx, alert>>
    /\ UNCHANGED <<evalVars, cfgVars, ackVars, sockVars, dbVars, idVars, schedVars, envVars>>

\* socket_manager.emit_alert: sio.emit("alert:new", room="alerts:all") returned
EmitA(c) ==
    /\ At(c, "emitA")
    /\ LET a == alerts[c][Len(alerts[c])]
           n == NextVital(vital[c], vidx[c] + 1)
       IN  /\ log' = [log EXCEPT ![c] = Append(@, Event("alert:new@all", a.patient_id, a.id))]
           /\ vidx' = [vidx EXCEPT ![c] = n]
           /\ pc' = [pc EXCEPT ![c] = AlertLoopPc(n)]
    /\ UNCHANGED <<sess, vital, alerts, plist, pidx, prisk, pendingLogs, lidx, alert>>
    /\ UNCHANGED <<evalVars, cfgVars, ackVars, sockVars, dbVars, idVars, schedVars, envVars>>

\* the closing db.flush() returned and so does check_vital_and_create_alerts; the
\* caller marks the reading (and the scheduler goes on to _update_patient_risk)
Flush2(c) ==
    /\ At(c, "flush2")
    /\ LET v == vital[c]
           marked == [v EXCEPT !.is_anomaly = TRUE]
       IN  IF alerts[c] # <<>>
           THEN /\ vital' = [vital EXCEPT ![c] = marked]
                /\ sess' = [sess EXCEPT ![c].readings =
                                (@ \ {ReadingRow(v)}) \cup {ReadingRow(marked)},
                                        ![c].inserted = {a.id : a \in sess[c].alerts}]
                /\ pc' = [pc EXCEPT ![c] = IF c \in Carriers THEN "risk" ELSE "commit"]
           ELSE /\ pc' = [pc EXCEPT ![c] = "commit"]
                /\ UNCHANGED <<vital, sess>>
    /\ log' = [log EXCEPT ![c] = Append(@, Event("evaluated", vital[c].patient_id, vital[c].id))]
    /\ UNCHANGED <<vidx, alerts, plist, pidx, prisk, pendingLogs, lidx, alert>>
    /\ UNCHANGED <<evalVars, cfgVars, ackVars, sockVars, dbVars, idVars, schedVars, envVars>>

----------------------------------------------------------------------------
(* services/simulator.py: the patient step of _run_simulation_cycle *)

\* two of the payloads generate_vital_payload can draw for a patient with no previous
\* values: all normal, and heart rate elevated with fever (the Post-Surgery profile)
NormalPayload == [heart_rate |-> Some(72), spo2 |-> Some(97), temperature |-> Some(368)]

FebrilePayload == [heart_rate |-> Some(110), spo2 |-> Some(97), temperature |-> Some(386)]

SimPayloads == {NormalPayload, FebrilePayload}

\* with previous values the draw stays close to them: here it repeats them
PayloadChoices(p) ==
    IF patient_states[p] = <<>> THEN SimPayloads ELSE {patient_states[p][1]}

\* lines 362-363 up to the first await: generate the payload, build the reading, db.add
BeginPatient(c, lst, n, s, lg) ==
    \E payload \in PayloadChoices(lst[n]) :
        LET v == Reading(nextReadingId, lst[n], payload)
        IN  /\ patient_states' = [patient_states EXCEPT ![lst[n]] = <<payload>>]
            /\ vital' = [vital EXCEPT ![c] = v]
            /\ nextReadingId' = nextReadingId + 1
            /\ sess' = [sess EXCEPT ![c] = [s EXCEPT !.readings = @ \cup {ReadingRow(v)}]]
            /\ log' = [log EXCEPT ![c] = Append(lg, Event("generated", lst[n], v.id))]
            /\ pc' = [pc EXCEPT ![c] = "flush1"]
            /\ vidx' = [vidx EXCEPT ![c] = 0]
            /\ alerts' = [alerts EXCEPT ![c] = <<>>]
            /\ pidx' = [pidx EXCEPT ![c] = n]

\* the for loop is exhausted: the async with block is left
EndCycle(c, n, s, lg) ==
    /\ pc' = [pc EXCEPT ![c] = "close"]
    /\ sess' = [sess EXCEPT ![c] = s]
    /\ log' = [log EXCEPT ![c] = lg]
    /\ pidx' = [pidx EXCEPT ![c] = n]
    /\ UNCHANGED <<vital, vidx, alerts, patient_states, nextReadingId>>

\* the for loop moves on (normally or through except/continue, lines 370-372) to the
\* next patient; generate_vital_payload of f patients in a row may raise before one
\* reaches its first await.  Sets pc, sess, vital, vidx, alerts, pidx, log,
\* patient_states, nextReadingId and faultsLeft.
NextPatient(c, lst, from, s, lg, fl) ==
    \E f \in 0..(Len(lst) - from) :
        /\ f <= fl
        /\ faultsLeft' = fl - f
        /\ LET lg2 == lg \o [m \in 1..f |-> Event("error", lst[from + m], 0)]
           IN  IF from + f < Len(lst)
               THEN BeginPatient(c, lst, from + f + 1, s, lg2)
               ELSE EndCycle(c, from + f, s, lg2)

\* db.execute(select(Patient)) returned
Fetch(c) ==
    /\ c \in Carriers
    /\ At(c, "fetch")
    /\ LET lst == [q \in 1..NumPatients |-> q]
       IN  /\ plist' = [plist EXCEPT ![c] = lst]
           /\ NextPatient(c, lst, 0, sess[c], log[c], faultsLeft)
    /\ prisk' = [prisk EXCEPT ![c] = risk]
    /\ UNCHANGED <<pendingLogs, lidx, alert>>
    /\ UNCHANGED <<evalVars, cfgVars, ackVars, sockVars, dbVars, nextAlertId, requests>>
    /\ UNCHANGED <<running, task, cancelReq, stopPc, stopState, cycles>>

\* timedelta(hours=1), in minutes
Hour == 60

\* the variant of CountAlerts that counts the patient's alerts of all times
CountAlertsEver(c, p, severity) ==
    Cardinality({a \in alertRows \cup sess[c].alerts :
                    a.patient_id = p /\ a.severity = severity})

\* the rows _update_patient_risk counts: the session sees its own pending alerts
CountAlerts(c, p, severity) ==
    LET one_hour_ago == now - Hour
    IN  Cardinality({a \in alertRows \cup sess[c].alerts :
                        /\ a.patient_id = p
                        /\ a.severity = severity
                        /\ a.created_at >= one_hour_ago})

ComputeRisk(cc, wc) ==
    IF cc >= 2 THEN "critical"
    ELSE IF cc >= 1 \/ wc >= 3 THEN "high"
    ELSE IF wc >= 1 THEN "medium"
    ELSE "low"

\* the variant of RiskChanged that takes every computed level for a change
RiskChangedAlways(c, p, new_risk) == TRUE

\* line 298: the level computed differs from the level of the loaded Patient
RiskChanged(c, p, new_risk) == prisk[c][p] # new_risk

\* _update_patient_risk: the two counts returned (two awaits, nothing in between);
\* decide and write
Risk(c) ==
    /\ At(c, "risk")
    /\ LET p == vital[c].patient_id
           new_risk == ComputeRisk(CountAlerts(c, p, "critical"), CountAlerts(c, p, "warning"))
       IN  IF RiskChanged(c, p, new_risk)
           THEN /\ prisk' = [prisk EXCEPT ![c][p] = new_risk]
                /\ sess' = [sess EXCEPT ![c].dirtyRisk = @ \cup {p}]
                /\ pc' = [pc EXCEPT ![c] = "riskCommit"]
           ELSE /\ pc' = [pc EXCEPT ![c] = "commit"]
                /\ UNCHANGED <<prisk, sess>>
    /\ log' = [log EXCEPT ![c] = Append(@, Event("risk", vital[c].patient_id, vital[c].id))]
    /\ UNCHANGED <<vital, vidx, alerts, plist, pidx, pendingLogs, lidx,
                   alert>>
    /\ UNCHANGED <<evalVars, cfgVars, ackVars, sockVars, dbVars, idVars, schedVars, envVars>>

\* _update_patient_risk: db.commit() (line 300) returned and the update is logged
RiskCommit(c) ==
    /\ At(c, "riskCommit")
    /\ readingRows' = CommitReadings(sess[c])
    /\ alertRows' = CommitAlerts(sess[c])
    /\ risk' = CommitRisk(sess[c], prisk[c])
    /\ logStatus' = CommitLogs(sess[c])
    /\ sess' = [sess EXCEPT ![c] = EmptySession]
    /\ log' = [log EXCEPT ![c] =
                  Append(@, Event("risk:updated", vital[c].patient_id, vital[c].id))]
    /\ pc' = [pc EXCEPT ![c] = "commit"]
    /\ UNCHANGED <<vital, vidx, alerts, plist, pidx, prisk, pendingLogs, lidx, alert>>
    /\ UNCHANGED <<evalVars, cfgVars, ackVars, sockVars, idVars, schedVars, envVars>>

\* db.commit() of the reading (line 243, or line 70 of routers/vitals.py) returned
Commit(c) ==
    /\ At(c, "commit")
    /\ readingRows' = CommitReadings(sess[c])
    /\ alertRows' = CommitAlerts(sess[c])
    /\ risk' = CommitRisk(sess[c], prisk[c])
    /\ logStatus' = CommitLogs(sess[c])
    /\ sess' = [sess EXCEPT ![c] = EmptySession]
    /\ log' = [log EXCEPT ![c] = Append(@, Event("committed", vital[c].patient_id, vital[c].id))]
    /\ pc' = [pc EXCEPT ![c] = "emitV"]
    /\ UNCHANGED <<vital, vidx, alerts, plist, pidx, prisk, pendingLogs, lidx, alert>>
    /\ UNCHANGED <<evalVars, cfgVars, ackVars, sockVars, idVars, schedVars, envVars>>

\* db.refresh(vital) and then socket_manager.emit_vital_update returned.  The request handler returns here and
\* its session is closed; the scheduler goes on to _check_missed_medications.
EmitV(c) ==
    /\ At(c, "emitV")
    /\ log' = [log EXCEPT ![c] = Append(@, Event("vital:update", vital[c].patient_id, vital[c].id))]
    /\ IF c \in Carriers
          THEN /\ pc' = [pc EXCEPT ![c] = "medsQ"]
               /\ UNCHANGED sess
          ELSE /\ pc' = [pc EXCEPT ![c] = "idle"]
               /\ sess' = [sess EXCEPT ![c] = EmptySession]
    /\ UNCHANGED <<vital, vidx, alerts, plist, pidx, prisk, pendingLogs, lidx, alert>>
    /\ UNCHANGED <<evalVars, cfgVars, ackVars, sockVars, dbVars, idVars, schedVars, envVars>>

----------------------------------------------------------------------------
(* services/simulator.py: _check_missed_medications *)

MedAlert(id, p) ==
    [id |-> id, patient_id |-> p, vital_reading_id |-> None,
     alert_type |-> "medication_missed", severity |-> "warning", vital_type |-> "none",
     vital_value |-> None, threshold_breached |-> None, notification_sent |-> FALSE,
     created_at |-> now]

\* the logs the query of line 309 returns, in id order, as the session sees them
RECURSIVE LogsFrom(_, _, _)
LogsFrom(c, p, l) ==
    IF l > NumLogs THEN <<>>
    ELSE IF /\ LogPatient(l) = p
            /\ logDue[l]
            /\ (IF l \in sess[c].missedLogs THEN "missed" ELSE logStatus[l]) = "pending"
         THEN <<l>> \o LogsFrom(c, p, l + 1)
         ELSE LogsFrom(c, p, l + 1)

\* the select of pending overdue logs returned; the first log is marked missed
MedsQ(c) ==
    /\ At(c, "medsQ")
    /\ LET p == vital[c].patient_id
           found == LogsFrom(c, p, 1)
       IN  /\ pendingLogs' = [pendingLogs EXCEPT ![c] = found]
           /\ IF found = <<>>
              THEN /\ NextPatient(c, plist[c], pidx[c], sess[c],
                                   Append(log[c], Event("simulated", p, vital[c].id)), faultsLeft)
                   /\ UNCHANGED lidx
              ELSE /\ lidx' = [lidx EXCEPT ![c] = 1]
                   /\ sess' = [sess EXCEPT ![c].missedLogs = @ \cup {found[1]}]
                   /\ pc' = [pc EXCEPT ![c] = "medQ"]
                   /\ UNCHANGED <<vital, vidx, alerts, pidx, log, patient_states,
                                  nextReadingId, faultsLeft>>
    /\ UNCHANGED <<plist, prisk, alert>>
    /\ UNCHANGED <<evalVars, cfgVars, ackVars, sockVars, dbVars, nextAlertId, requests>>
    /\ UNCHANGED <<running, task, cancelReq, stopPc, stopState, cycles>>

\* select(Medication) returned: the alert is built and added
MedQ(c) ==
    /\ At(c, "medQ")
    /\ LET a == MedAlert(nextAlertId, vital[c].patient_id)
       IN  /\ alert' = [alert EXCEPT ![c] = <<a>>]
           /\ sess' = [sess EXCEPT ![c].alerts = @ \cup {a}]
           /\ log' = [log EXCEPT ![c] = Append(@, Event("alert_created", a.patient_id, a.id))]
    /\ nextAlertId' = nextAlertId + 1
    /\ pc' = [pc EXCEPT ![c] = "medEmitP"]
    /\ UNCHANGED <<vital, vidx, alerts, plist, pidx, prisk, pendingLogs, lidx>>
    /\ UNCHANGED <<evalVars, cfgVars, ackVars, sockVars, dbVars, nextReadingId, schedVars, envVars>>

\* db.flush() (line 343) and then sio.emit("alert:new", room=patient:<id>) returned
MedEmitP(c) ==
    /\ At(c, "medEmitP")
    /\ log' = [log EXCEPT ![c] =
                  Append(@, Event("alert:new@patient", alert[c][1].patient_id, alert[c][1].id))]
    /\ sess' = [sess EXCEPT ![c].inserted = @ \cup {alert[c][1].id}]
    /\ pc' = [pc EXCEPT ![c] = "medEmitA"]
    /\ UNCHANGED <<vital, vidx, alerts, plist, pidx, prisk, pendingLogs, lidx, alert>>
    /\ UNCHANGED <<evalVars, cfgVars, ackVars, sockVars, dbVars, idVars, schedVars, envVars>>

\* emit_alert: sio.emit("alert:new", room="alerts:all") returned; next log, or commit
MedEmitA(c) ==
    /\ At(c, "medEmitA")
    /\ log' = [log EXCEPT ![c] =
                  Append(@, Event("alert:new@all", alert[c][1].patient_id, alert[c][1].id))]
    /\ alert' = [alert EXCEPT ![c] = <<>>]
    /\ IF lidx[c] < Len(pendingLogs[c])
          THEN /\ lidx' = [lidx EXCEPT ![c] = @ + 1]
               /\ sess' = [sess EXCEPT ![c].missedLogs = @ \cup {pendingLogs[c][lidx[c] + 1]}]
               /\ pc' = [pc EXCEPT ![c] = "medQ"]
          ELSE /\ pc' = [pc EXCEPT ![c] = "medCommit"]
               /\ UNCHANGED <<lidx, sess>>
    /\ UNCHANGED <<vital, vidx, alerts, plist, pidx, prisk, pendingLogs>>
    /\ UNCHANGED <<evalVars, cfgVars, ackVars, sockVars, dbVars, idVars, schedVars, envVars>>

\* db.commit() (line 349) returned: the patient is done (line 368)
MedCommit(c) ==
    /\ At(c, "medCommit")
    /\ readingRows' = CommitReadings(sess[c])
    /\ alertRows' = CommitAlerts(sess[c])
    /\ risk' = CommitRisk(sess[c], prisk[c])
    /\ logStatus' = CommitLogs(sess[c])
    /\ NextPatient(c, plist[c], pidx[c], EmptySession,
                   Append(log[c], Event("simulated", vital[c].patient_id, vital[c].id)),
                   faultsLeft)
    /\ UNCHANGED <<plist, prisk, pendingLogs, lidx, alert>>
    /\ UNCHANGED <<evalVars, cfgVars, ackVars, sockVars, nextAlertId, requests>>
    /\ UNCHANGED <<running, task, cancelReq, stopPc, stopState, cycles>>

----------------------------------------------------------------------------
(* An awaited operation raises *)

\* the awaits of one patient's processing in the cycle
PatientPcs ==
    {"flush1", "thr", "emitP", "emitA", "flush2", "risk", "riskCommit", "commit",
     "emitV", "medsQ", "medQ", "medEmitP", "medEmitA", "medCommit"}

\* the awaits of a cycle
CyclePcs == {"fetch", "close"} \cup PatientPcs

\* the awaits of the request handler
RequestPcs ==
    {"rfetch", "flush1", "thr", "emitP", "emitA", "flush2", "commit", "emitV"}

\* the session a fault at carrier c's await leaves behind: untouched, pending writes
\* included, when the failure lies outside the database; failed when a statement or
\* a flush failed; failed or begun anew when a commit failed
SessionAfterFault(c) ==
    IF pc[c] \in SocketPcs THEN {sess[c]}
    ELSE IF pc[c] \in MixedPcs THEN {sess[c], FailedSession}
    ELSE IF pc[c] \in CommitPcs THEN {EmptySession, FailedSession}
    ELSE {FailedSession}

\* the operation awaited in one patient's processing raises: except Exception of
\* line 370 logs and continues with the next patient.  The session is not rolled back.
PatientFault(c) ==
    /\ c \in Carriers
    /\ pc[c] \in PatientPcs
    /\ ~(c = "bg" /\ cancelReq)
    /\ ~sess[c].failed
    /\ faultsLeft > 0
    /\ \E s \in SessionAfterFault(c) :
           NextPatient(c, plist[c], pidx[c], s,
                       Append(log[c], Event("error", vital[c].patient_id, vital[c].id)),
                       faultsLeft - 1)
    /\ UNCHANGED <<plist, prisk, pendingLogs, lidx, alert>>
    /\ UNCHANGED <<evalVars, cfgVars, ackVars, sockVars, dbVars, nextAlertId, requests>>
    /\ UNCHANGED <<running, task, cancelReq, stopPc, stopState, cycles>>

\* a call on the failed session raises PendingRollbackError: line 370 again
PendingRollback(c) ==
    /\ c \in Carriers
    /\ pc[c] \in PatientPcs \ SocketPcs
    /\ ~(c = "bg" /\ cancelReq)
    /\ sess[c].failed
    /\ NextPatient(c, plist[c], pidx[c], FailedSession,
                   Append(log[c], Event("error: PendingRollbackError",
                                        vital[c].patient_id, vital[c].id)),
                   faultsLeft)
    /\ UNCHANGED <<plist, prisk, pendingLogs, lidx, alert>>
    /\ UNCHANGED <<evalVars, cfgVars, ackVars, sockVars, dbVars, nextAlertId, requests>>
    /\ UNCHANGED <<running, task, cancelReq, stopPc, stopState, cycles>>

\* the variant of FetchFault in which the exception escapes start(): the loop ends
FetchFaultFatal(c) ==
    /\ c \in Carriers
    /\ At(c, "fetch")
    /\ faultsLeft > 0
    /\ faultsLeft' = faultsLeft - 1
    /\ pc' = [pc EXCEPT ![c] = "returned"]
    /\ log' = [log EXCEPT ![c] = Append(@, Event("cycle_error", 0, 0))]
    /\ UNCHANGED <<sess, vital, vidx, alerts, plist, pidx, prisk, pendingLogs, lidx, alert>>
    /\ UNCHANGED <<evalVars, cfgVars, ackVars, sockVars, dbVars, idVars, schedVars, requests>>

\* select(Patient) raises: except Exception of line 374 logs, the cycle does nothing
FetchFault(c) ==
    /\ c \in Carriers
    /\ At(c, "fetch")
    /\ faultsLeft > 0
    /\ faultsLeft' = faultsLeft - 1
    /\ pc' = [pc EXCEPT ![c] = "close"]
    /\ log' = [log EXCEPT ![c] = Append(@, Event("cycle_error", 0, 0))]
    /\ UNCHANGED <<sess, vital, vidx, alerts, plist, pidx, prisk, pendingLogs, lidx, alert>>
    /\ UNCHANGED <<evalVars, cfgVars, ackVars, sockVars, dbVars, idVars, schedVars, requests>>

\* an operation awaited by the request handler raises: the request fails and the
\* session of the request is closed without a commit
RequestFault ==
    /\ pc["req"] \in RequestPcs
    /\ faultsLeft > 0
    /\ faultsLeft' = faultsLeft - 1
    /\ pc' = [pc EXCEPT !["req"] = "idle"]
    /\ sess' = [sess EXCEPT !["req"] = EmptySession]
    /\ log' = [log EXCEPT !["req"] = Append(@, Event("error", vital["req"].patient_id, vital["req"].id))]
    /\ UNCHANGED <<vital, vidx, alerts, plist, pidx, prisk, pendingLogs, lidx, alert>>
    /\ UNCHANGED <<evalVars, cfgVars, ackVars, sockVars, dbVars, idVars, schedVars, requests>>

----------------------------------------------------------------------------
(* services/simulator.py: start, stop, run_in_background *)

\* a coroutine that has ended
DonePcs == {"returned", "cancelled"}

\* a coroutine inside the while loop of start()
LoopPcs == CyclePcs \cup {"sleep"}

\* the task or coroutine c ends; a stop() awaiting the task is woken
WakeStop(c) ==
    stopPc' = IF c = "bg" /\ stopPc = "await" THEN "ready" ELSE stopPc

\* _run_simulation_cycle is entered: the session is opened and select(Patient) is
\* awaited.  Sets pc, sess, plist, pidx, log, cycles and faultsLeft.
BeginCycle(c) ==
    /\ cycles < MaxCycles
    /\ cycles' = cycles + 1
    /\ sess' = [sess EXCEPT ![c] = EmptySession]
    /\ pc' = [pc EXCEPT ![c] = "fetch"]
    /\ log' = [log EXCEPT ![c] = <<>>]
    /\ UNCHANGED <<plist, pidx, faultsLeft>>

\* the variant of StartBody without the guard of line 379
StartBodyUnguarded(c) ==
    /\ running' = TRUE
    /\ BeginCycle(c)
    /\ UNCHANGED stopPc

\* the body of start() up to its first await, run by coroutine c.
\* Sets running, stopPc, pc, sess, plist, pidx, log, cycles and faultsLeft.
StartBody(c) ==
    IF running
    THEN /\ pc' = [pc EXCEPT ![c] = "returned"]
         /\ WakeStop(c)
         /\ UNCHANGED <<running, sess, plist, pidx, log, cycles, faultsLeft>>
    ELSE /\ running' = TRUE
         /\ BeginCycle(c)
         /\ UNCHANGED stopPc

\* the host awaits start() itself
CallStart ==
    /\ pc["fg"] \in {"none", "returned"}
    /\ StartBody("fg")
    /\ stopState' = "none"
    /\ UNCHANGED <<vital, vidx, alerts, prisk, pendingLogs, lidx, alert>>
    /\ UNCHANGED <<evalVars, cfgVars, ackVars, sockVars, dbVars, idVars, requests>>
    /\ UNCHANGED <<task, cancelReq, patient_states>>

\* run_in_background(): asyncio.create_task(self.start()) unless a task is held
\* that is not done
RunInBackground ==
    /\ IF task = "None" \/ pc["bg"] \in DonePcs
          THEN /\ task' = "bg"
               /\ pc' = [pc EXCEPT !["bg"] = "created"]
               /\ cancelReq' = FALSE
          ELSE UNCHANGED <<task, pc, cancelReq>>
    /\ stopState' = "none"
    /\ UNCHANGED <<sess, vital, vidx, alerts, plist, pidx, prisk, pendingLogs, lidx, alert, log>>
    /\ UNCHANGED <<evalVars, cfgVars, ackVars, sockVars, dbVars, idVars, envVars>>
    /\ UNCHANGED <<running, stopPc, patient_states, cycles>>

\* the event loop runs the created task for the first time
TaskStart ==
    /\ At("bg", "created")
    /\ StartBody("bg")
    /\ UNCHANGED <<vital, vidx, alerts, prisk, pendingLogs, lidx, alert>>
    /\ UNCHANGED <<evalVars, cfgVars, ackVars, sockVars, dbVars, idVars, requests>>
    /\ UNCHANGED <<task, cancelReq, stopState, patient_states>>

\* _run_simulation_cycle is left, by return or by an exception passing through: the
\* async with block closes the session, which discards what was not committed, and
\* the locals of the cycle are gone
Unwind(c) ==
    /\ sess' = [sess EXCEPT ![c] = EmptySession]
    /\ vital' = [vital EXCEPT ![c] = Reading(0, 0, NoPayload)]
    /\ vidx' = [vidx EXCEPT ![c] = 0]
    /\ alerts' = [alerts EXCEPT ![c] = <<>>]
    /\ plist' = [plist EXCEPT ![c] = <<>>]
    /\ pidx' = [pidx EXCEPT ![c] = 0]
    /\ prisk' = [prisk EXCEPT ![c] = [p \in Patients |-> "medium"]]
    /\ pendingLogs' = [pendingLogs EXCEPT ![c] = <<>>]
    /\ lidx' = [lidx EXCEPT ![c] = 0]
    /\ alert' = [alert EXCEPT ![c] = <<>>]
    /\ log' = [log EXCEPT ![c] = <<>>]

\* the cycle returns; asyncio.sleep is awaited
Close(c) ==
    /\ c \in Carriers
    /\ At(c, "close")
    /\ Unwind(c)
    /\ pc' = [pc EXCEPT ![c] = "sleep"]
    /\ UNCHANGED <<evalVars, cfgVars, ackVars, sockVars, dbVars, idVars, schedVars, envVars>>

\* asyncio.sleep returned: while self.running
Wake(c) ==
    /\ c \in Carriers
    /\ At(c, "sleep")
    /\ IF running
          THEN /\ BeginCycle(c)
               /\ UNCHANGED stopPc
          ELSE /\ pc' = [pc EXCEPT ![c] = "returned"]
               /\ WakeStop(c)
               /\ UNCHANGED <<sess, plist, pidx, log, cycles, faultsLeft>>
    /\ UNCHANGED <<vital, vidx, alerts, prisk, pendingLogs, lidx, alert>>
    /\ UNCHANGED <<evalVars, cfgVars, ackVars, sockVars, dbVars, idVars, requests>>
    /\ UNCHANGED <<running, task, cancelReq, stopState, patient_states>>

\* stop() up to await self._task: awaiting a task that is done does not suspend
StopCall ==
    /\ stopPc = "idle"
    /\ running' = FALSE
    /\ IF task = "bg" /\ pc["bg"] \notin DonePcs
          THEN /\ cancelReq' = TRUE
               /\ stopPc' = "await"
               /\ stopState' = "called"
          ELSE /\ stopState' = "returned"
               /\ UNCHANGED <<cancelReq, stopPc>>
    /\ UNCHANGED <<ctxVars, evalVars, cfgVars, ackVars, sockVars, dbVars, idVars, envVars>>
    /\ UNCHANGED <<task, patient_states, cycles>>

\* CancelledError is raised in the task at the await it is suspended at.  It is no
\* Exception: no handler of the cycle catches it, the async with block closes the
\* session and the task ends cancelled.
DeliverCancel ==
    /\ cancelReq
    /\ pc["bg"] \in LoopPcs \cup {"created"}
    /\ cancelReq' = FALSE
    /\ pc' = [pc EXCEPT !["bg"] = "cancelled"]
    /\ Unwind("bg")
    /\ WakeStop("bg")
    /\ UNCHANGED <<evalVars, cfgVars, ackVars, sockVars, dbVars, idVars, envVars>>
    /\ UNCHANGED <<running, task, stopState, patient_states, cycles>>

\* await self._task ends (the CancelledError is swallowed) and stop() returns
StopReturn ==
    /\ stopPc = "ready"
    /\ stopPc' = "idle"
    /\ stopState' = IF stopState = "called" THEN "returned" ELSE stopState
    /\ UNCHANGED <<ctxVars, evalVars, cfgVars, ackVars, sockVars, dbVars, idVars, envVars>>
    /\ UNCHANGED <<running, task, cancelReq, patient_states, cycles>>

----------------------------------------------------------------------------
(* routers/vitals.py: create_vital_reading *)

\* the values a request carries for each vital: absent, or one of three values
ReqPayloads ==
    [heart_rate : {None, Some(45), Some(72), Some(130)},
     spo2 : {None, Some(85), Some(90), Some(97)},
     temperature : {None, Some(368), Some(380), Some(390)}]

\* POST /vitals arrives; select(Patient) is awaited
ReqSubmit ==
    /\ pc["req"] = "idle"
    /\ requests < MaxRequests
    /\ requests' = requests + 1
    /\ \E p \in 1..(NumPatients + 1), payload \in ReqPayloads :
           vital' = [vital EXCEPT !["req"] = Reading(0, p, payload)]
    /\ pc' = [pc EXCEPT !["req"] = "rfetch"]
    /\ sess' = [sess EXCEPT !["req"] = EmptySession]
    /\ log' = [log EXCEPT !["req"] = <<>>]
    /\ alerts' = [alerts EXCEPT !["req"] = <<>>]
    /\ vidx' = [vidx EXCEPT !["req"] = 0]
    /\ UNCHANGED <<plist, pidx, prisk, pendingLogs, lidx, alert>>
    /\ UNCHANGED <<evalVars, cfgVars, ackVars, sockVars, dbVars, idVars, schedVars, faultsLeft>>

\* select(Patient) returned: 404 when there is no such patient, else the reading
\* is built and added and db.flush() is awaited
ReqFetch ==
    /\ pc["req"] = "rfetch"
    /\ IF vital["req"].patient_id \in Patients
          THEN LET v == [vital["req"] EXCEPT !.id = nextReadingId]
               IN  /\ vital' = [vital EXCEPT !["req"] = v]
                   /\ nextReadingId' = nextReadingId + 1
                   /\ sess' = [sess EXCEPT !["req"].readings = @ \cup {ReadingRow(v)}]
                   /\ pc' = [pc EXCEPT !["req"] = "flush1"]
          ELSE /\ pc' = [pc EXCEPT !["req"] = "idle"]
               /\ UNCHANGED <<vital, nextReadingId, sess>>
    /\ UNCHANGED <<vidx, alerts, plist, pidx, prisk, pendingLogs, lidx,
                   alert, log>>
    /\ UNCHANGED <<evalVars, cfgVars, ackVars, sockVars, dbVars, nextAlertId, schedVars, envVars>>

----------------------------------------------------------------------------
(* socket_manager.py *)

\* connections in a run
NumSids == 2

\* sio.emit calls in a run
MaxPublishes == 2

\* handlers of subscribe and unsubscribe events suspended at the same time
MaxInFlight == 1

Sids == 1..NumSids

PatientTopic(p) == <<"patient", p>>

AlertsAll == <<"alerts:all", 0>>

Topics == {PatientTopic(p) : p \in Patients} \cup {AlertsAll}

\* a handler suspended at an await: op is what it does when it is resumed
Handler(op, sid, p) == [op |-> op, sid |-> sid, patient_id |-> p]

\* the handlers of client events that are suspended
ClientHandlers == {h \in inflight : h.op \in {"subscribe", "unsubscribe"}}

\* the variant of EnterRoom that takes a connection already in the room out of it
EnterRoomToggle(r, t, sid) ==
    [r EXCEPT ![t] = IF sid \in @ THEN @ \ {sid} ELSE @ \cup {sid}]

\* sio.enter_room(sid, room)
EnterRoom(r, t, sid) == [r EXCEPT ![t] = @ \cup {sid}]

\* sio.leave_room(sid, room)
LeaveRoom(r, t, sid) == [r EXCEPT ![t] = @ \ {sid}]

\* the variant of Participants that takes every open connection
ParticipantsAll(t) == {sid \in Sids : conn[sid] = "open"}

\* the connections sio.emit(..., room=t) sends to
Participants(t) == rooms[t]

\* the variant of AlertRooms that emits twice to the patient's room
AlertRoomsPatientOnly(p) == <<PatientTopic(p), PatientTopic(p)>>

\* the rooms emit_alert(patient_id, alert_data) emits to, in order
AlertRooms(p) == <<PatientTopic(p), AlertsAll>>

\* sio.emit(name, data, room=t), the data being of patient p: one event to each
\* connection in the room
Emit(name, t, p) ==
    /\ published' = published + 1
    /\ emitted' = Append(emitted, [name |-> name, topic |-> t, patient_id |-> p])
    /\ received' =
           [sid \in Sids |->
               IF sid \in Participants(t)
               THEN Append(received[sid], [name |-> name, topic |-> t, n |-> published + 1])
               ELSE received[sid]]

\* a client connects: the connect handler logs
Connect(sid) ==
    /\ conn[sid] = "new"
    /\ conn' = [conn EXCEPT ![sid] = "open"]
    /\ UNCHANGED <<rooms, patient_rooms, inflight, received, published, emitted>>
    /\ UNCHANGED <<evalVars, cfgVars, ackVars, dbVars, idVars, ctxVars, schedVars, envVars>>

\* the connection is lost: SocketManager.disconnect takes the sid out of every set
\* of patient_rooms, and the server takes it out of every room
Disconnect(sid) ==
    /\ conn[sid] = "open"
    /\ conn' = [conn EXCEPT ![sid] = "closed"]
    /\ patient_rooms' = [p \in Patients |-> patient_rooms[p] \ {sid}]
    /\ rooms' = [t \in Topics |-> rooms[t] \ {sid}]
    /\ UNCHANGED <<inflight, received, published, emitted>>
    /\ UNCHANGED <<evalVars, cfgVars, ackVars, dbVars, idVars, ctxVars, schedVars, envVars>>

\* a subscribe_patient event: subscribe_to_patient up to await sio.enter_room
SubscribePatient(sid, p) ==
    /\ conn[sid] = "open"
    /\ Cardinality(ClientHandlers) < MaxInFlight
    /\ rooms' = EnterRoom(rooms, PatientTopic(p), sid)
    /\ inflight' = inflight \cup {Handler("subscribe", sid, p)}
    /\ UNCHANGED <<conn, patient_rooms, received, published, emitted>>
    /\ UNCHANGED <<evalVars, cfgVars, ackVars, dbVars, idVars, ctxVars, schedVars, envVars>>

\* subscribe_to_patient after the await: the sid is added to patient_rooms
SubscribeAdd(sid, p) ==
    /\ Handler("subscribe", sid, p) \in inflight
    /\ patient_rooms' = [patient_rooms EXCEPT ![p] = @ \cup {sid}]
    /\ inflight' = inflight \ {Handler("subscribe", sid, p)}
    /\ UNCHANGED <<conn, rooms, received, published, emitted>>
    /\ UNCHANGED <<evalVars, cfgVars, ackVars, dbVars, idVars, ctxVars, schedVars, envVars>>

\* an unsubscribe_patient event: unsubscribe_from_patient up to await sio.leave_room
UnsubscribePatient(sid, p) ==
    /\ conn[sid] = "open"
    /\ Cardinality(ClientHandlers) < MaxInFlight
    /\ rooms' = LeaveRoom(rooms, PatientTopic(p), sid)
    /\ inflight' = inflight \cup {Handler("unsubscribe", sid, p)}
    /\ UNCHANGED <<conn, patient_rooms, received, published, emitted>>
    /\ UNCHANGED <<evalVars, cfgVars, ackVars, dbVars, idVars, ctxVars, schedVars, envVars>>

\* unsubscribe_from_patient after the await: the sid is discarded from patient_rooms
UnsubscribeDiscard(sid, p) ==
    /\ Handler("unsubscribe", sid, p) \in inflight
    /\ patient_rooms' = [patient_rooms EXCEPT ![p] = @ \ {sid}]
    /\ inflight' = inflight \ {Handler("unsubscribe", sid, p)}
    /\ UNCHANGED <<conn, rooms, received, published, emitted>>
    /\ UNCHANGED <<evalVars, cfgVars, ackVars, dbVars, idVars, ctxVars, schedVars, envVars>>

\* a subscribe_alerts event: the sid enters alerts:all
SubscribeAlerts(sid) ==
    /\ conn[sid] = "open"
    /\ rooms' = EnterRoom(rooms, AlertsAll, sid)
    /\ UNCHANGED <<conn, patient_rooms, inflight, received, published, emitted>>
    /\ UNCHANGED <<evalVars, cfgVars, ackVars, dbVars, idVars, ctxVars, schedVars, envVars>>

\* emit_vital_update(patient_id, vital_data)
EmitVitalUpdate(p) ==
    /\ published < MaxPublishes
    /\ Emit("vital:update", PatientTopic(p), p)
    /\ UNCHANGED <<conn, rooms, patient_rooms, inflight>>
    /\ UNCHANGED <<evalVars, cfgVars, ackVars, dbVars, idVars, ctxVars, schedVars, envVars>>

\* emit_alert(patient_id, alert_data) up to the end of its first sio.emit
EmitAlert(p) ==
    /\ published + 1 < MaxPublishes
    /\ \A h \in inflight : h.op # "emit_alert"
    /\ Emit("alert:new", AlertRooms(p)[1], p)
    /\ inflight' = inflight \cup {Handler("emit_alert", 0, p)}
    /\ UNCHANGED <<conn, rooms, patient_rooms>>
    /\ UNCHANGED <<evalVars, cfgVars, ackVars, dbVars, idVars, ctxVars, schedVars, envVars>>

\* emit_alert: its second sio.emit, to alerts:all
EmitAlertAll(p) ==
    /\ Handler("emit_alert", 0, p) \in inflight
    /\ Emit("alert:new", AlertRooms(p)[2], p)
    /\ inflight' = inflight \ {Handler("emit_alert", 0, p)}
    /\ UNCHANGED <<conn, rooms, patient_rooms>>
    /\ UNCHANGED <<evalVars, cfgVars, ackVars, dbVars, idVars, ctxVars, schedVars, envVars>>

\* SocketManager.__init__ and a server with no connection
SockInit ==
    /\ conn = [sid \in Sids |-> "new"]
    /\ rooms = [t \in Topics |-> {}]
    /\ patient_rooms = [p \in Patients |-> {}]
    /\ inflight = {}
    /\ received = [sid \in Sids |-> <<>>]
    /\ published = 0
    /\ emitted = <<>>

----------------------------------------------------------------------------
(* services/simulator.py: the stream generator *)

\* a draw is one of the DrawWidth lowest or DrawWidth highest values the call can return
DrawWidth == 1

\* values are in the unit they are rounded to (temperature in tenths of a degree);
\* the bounds of a draw are kept in hundredths of that unit, which makes 0.15 * (max -
\* min) the integer 15 * (max - min)
Fine == 100

Range(lo, hi) == [min |-> lo, max |-> hi]

\* the channels of the payload that the alert generator reads
VITAL_RANGES ==
    [heart_rate  |-> [normal |-> Range(60, 100), elevated |-> Range(100, 120),
                      low |-> Range(45, 60)],
     temperature |-> [normal |-> Range(361, 372), fever |-> Range(375, 390),
                      low |-> Range(350, 360)],
     spo2        |-> [normal |-> Range(95, 100), low |-> Range(88, 94),
                      critical |-> Range(82, 88)]]

\* the keys of CONDITION_PROFILES, in the order of the dict
ProfileKeys ==
    <<"Hypertension", "COPD", "Heart Failure", "Diabetes", "Post-Surgery", "default">>

NoBias == [heart_rate |-> None, temperature |-> None, spo2 |-> None]

\* for each channel the range it is biased to, None when the profile has no entry for
\* the channel.  Every probability is strictly between 0 and 1: both outcomes of
\* random.random() < probability happen.
CONDITION_PROFILES ==
    [k \in {ProfileKeys[i] : i \in 1..Len(ProfileKeys)} |->
        CASE k = "Hypertension" -> [NoBias EXCEPT !.heart_rate = Some("elevated")]
          [] k = "COPD" -> [NoBias EXCEPT !.spo2 = Some("low")]
          [] k = "Heart Failure" ->
                 [NoBias EXCEPT !.heart_rate = Some("elevated"), !.spo2 = Some("low")]
          [] k = "Diabetes" -> [NoBias EXCEPT !.temperature = Some("normal")]
          [] k = "Post-Surgery" ->
                 [NoBias EXCEPT !.heart_rate = Some("elevated"), !.temperature = Some("fever")]
          [] k = "default" -> NoBias]

\* _get_patient_profile: the first key of the dict that the condition text contains
get_patient_profile(cond) ==
    LET S == {i \in 1..Len(ProfileKeys) : ProfileKeys[i] \in cond}
    IN  IF S = {} THEN CONDITION_PROFILES["default"]
        ELSE CONDITION_PROFILES[ProfileKeys[CHOOSE i \in S : \A j \in S : i <= j]]

MinOf(a, b) == IF a <= b THEN a ELSE b

MaxOf(a, b) == IF a >= b THEN a ELSE b

\* round(value) for every value random.uniform(a, b) can return, a and b in
\* hundredths: a value between a and b whichever is the larger, rounded half to even
Rounded(a, b) ==
    LET lo == MinOf(a, b)
        hi == MaxOf(a, b)
    IN  {k \in ((lo \div Fine) - 1)..((hi \div Fine) + 1) :
            \/ Fine * k - (Fine \div 2) < hi /\ Fine * k + (Fine \div 2) > lo
            \/ /\ k % 2 = 0
               /\ \/ lo <= Fine * k + (Fine \div 2) /\ Fine * k + (Fine \div 2) <= hi
                  \/ lo <= Fine * k - (Fine \div 2) /\ Fine * k - (Fine \div 2) <= hi}

\* lines 134-151: the values drawn from the selected range, given the previous value
DrawFrom(selected_range, previous_value) ==
    IF IsNone(previous_value)
    THEN Rounded(Fine * selected_range.min, Fine * selected_range.max)
    ELSE LET max_change == 15 * (selected_range.max - selected_range.min)
             new_min == MaxOf(Fine * selected_range.min,
                              Fine * Val(previous_value) - max_change)
             new_max == MinOf(Fine * selected_range.max,
                              Fine * Val(previous_value) + max_change)
         IN  Rounded(new_min, new_max)

\* lines 121-131: the ranges the call can select: normal, or the bias of the profile
SelectedRanges(vital_type, profile) ==
    {VITAL_RANGES[vital_type]["normal"]} \cup
        (IF IsNone(profile[vital_type]) THEN {}
         ELSE {VITAL_RANGES[vital_type][Val(profile[vital_type])]})

\* _generate_vital_value: every value the call can return
generate_vital_value(vital_type, profile, previous_value) ==
    UNION {DrawFrom(r, previous_value) : r \in SelectedRanges(vital_type, profile)}

\* the draws explored: the ends of what the call can return
DrawChoices(S) ==
    {v \in S : \/ Cardinality({w \in S : w < v}) < DrawWidth
               \/ Cardinality({w \in S : w > v}) < DrawWidth}

\* state.get(channel) of generate_vital_payload
Previous(p, channel) ==
    IF patient_states[p] = <<>> THEN None ELSE patient_states[p][1][channel]

\* generate_vital_payload(patient): one value for each channel, kept in
\* self._patient_states for the next call.  In a run one patient is generated for.
GenerateVitalPayload(p) ==
    /\ \A q \in Patients \ {p} : patient_states[q] = <<>>
    /\ LET profile == get_patient_profile(condition[p])
       IN  \E hr \in DrawChoices(generate_vital_value("heart_rate", profile,
                                                      Previous(p, "heart_rate"))),
              te \in DrawChoices(generate_vital_value("temperature", profile,
                                                      Previous(p, "temperature"))),
              sp \in DrawChoices(generate_vital_value("spo2", profile,
                                                      Previous(p, "spo2"))) :
               patient_states' =
                   [patient_states EXCEPT
                       ![p] = <<[heart_rate |-> Some(hr), spo2 |-> Some(sp),
                                 temperature |-> Some(te)]>>]
    /\ UNCHANGED <<running, task, cancelReq, stopPc, stopState, cycles>>
    /\ UNCHANGED <<evalVars, cfgVars, ackVars, sockVars, dbVars, idVars, ctxVars, envVars>>

----------------------------------------------------------------------------
(* Initial states *)

\* the rows create_default_thresholds inserts for a new patient
SeededThresholds ==
    [p \in Patients |->
        [heart_rate |-> <<DEFAULT_THRESHOLDS.heart_rate>>,
         spo2 |-> <<DEFAULT_THRESHOLDS.spo2>>,
         temperature |-> <<DEFAULT_THRESHOLDS.temperature>>]]

\* the evaluator has not been called
EvalIdle ==
    /\ evalValue = None
    /\ evalBand = DEFAULT_THRESHOLDS.heart_rate
    /\ evalResult = <<>>

\* the database after seeding: patients, their thresholds and medication logs, no
\* reading and no alert yet
DbInit ==
    /\ readingRows = {}
    /\ alertRows = {}
    /\ risk = [p \in Patients |-> "medium"]
    /\ logStatus = [l \in Logs |-> "pending"]
    /\ acknowledged = {}
    /\ acking = {}
    /\ acks = 0
    /\ nextReadingId = 1
    /\ nextAlertId = 1

\* VitalSimulator.__init__, no request in progress
CtxInit ==
    /\ pc = [c \in Ctx |-> IF c = "req" THEN "idle" ELSE "none"]
    /\ sess = [c \in Ctx |-> EmptySession]
    /\ vital = [c \in Ctx |-> Reading(0, 0, NoPayload)]
    /\ vidx = [c \in Ctx |-> 0]
    /\ alerts = [c \in Ctx |-> <<>>]
    /\ plist = [c \in Ctx |-> <<>>]
    /\ pidx = [c \in Ctx |-> 0]
    /\ prisk = [c \in Ctx |-> [p \in Patients |-> "medium"]]
    /\ pendingLogs = [c \in Ctx |-> <<>>]
    /\ lidx = [c \in Ctx |-> 0]
    /\ alert = [c \in Ctx |-> <<>>]
    /\ log = [c \in Ctx |-> <<>>]
    /\ running = FALSE
    /\ task = "None"
    /\ cancelReq = FALSE
    /\ stopPc = "idle"
    /\ stopState = "none"
    /\ cycles = 0
    /\ requests = 0

----------------------------------------------------------------------------
(* The scheduler as main.py runs it, and under any order of calls by a host *)

\* lifespan, before the yield: vital_simulator.run_in_background()
Startup ==
    /\ task = "None"
    /\ stopState = "none"
    /\ RunInBackground

\* lifespan, after the yield: await vital_simulator.stop()
Shutdown ==
    /\ task = "bg"
    /\ stopState = "none"
    /\ StopCall

\* the application with the simulator enabled; awaited operations may raise
Init ==
    /\ EvalIdle
    /\ thresholdRows = SeededThresholds
    /\ DbInit
    /\ CtxInit
    /\ SockInit
    /\ logDue \in [Logs -> BOOLEAN]
    /\ twilioEnabled = TRUE
    /\ now = 0
    /\ condition = [p \in Patients |-> {"Post-Surgery"}]
    /\ patient_states = [p \in Patients |-> <<>>]
    /\ faultsLeft = MaxFaults

CycleStep(c) ==
    \/ Fetch(c)
    \/ Flush1(c)
    \/ Thr(c)
    \/ EmitP(c)
    \/ EmitA(c)
    \/ Flush2(c)
    \/ Risk(c)
    \/ RiskCommit(c)
    \/ Commit(c)
    \/ EmitV(c)
    \/ MedsQ(c)
    \/ MedQ(c)
    \/ MedEmitP(c)
    \/ MedEmitA(c)
    \/ MedCommit(c)
    \/ Close(c)
    \/ Wake(c)

LoopStep == \E c \in Carriers : CycleStep(c)

\* an awaited operation raises of its own
Raise == \E c \in Carriers : PatientFault(c) \/ FetchFault(c)

\* a call on a failed session raises
Rejected == \E c \in Carriers : PendingRollback(c)

Next ==
    \/ Startup
    \/ TaskStart
    \/ Shutdown
    \/ DeliverCancel
    \/ StopReturn
    \/ LoopStep
    \/ Raise
    \/ Rejected

Spec == Init /\ [][Next]_vars

\* the event loop resumes every coroutine that is ready, and timers fire
SpecFair ==
    /\ Spec
    /\ WF_vars(TaskStart)
    /\ WF_vars(DeliverCancel)
    /\ WF_vars(StopReturn)
    /\ WF_vars(LoopStep)
    /\ WF_vars(Rejected)

\* a host that calls start, run_in_background and stop in any order.  No awaited
\* operation raises, Twilio is not configured, every medication log is overdue and
\* the simulator holds previous values for every patient (feverish for the first,
\* normal for the others), so that each draw is determined.
ApiInit ==
    /\ EvalIdle
    /\ thresholdRows = SeededThresholds
    /\ DbInit
    /\ CtxInit
    /\ SockInit
    /\ logDue = [l \in Logs |-> TRUE]
    /\ twilioEnabled = FALSE
    /\ now = 0
    /\ condition = [p \in Patients |-> {"Post-Surgery"}]
    /\ patient_states =
           [p \in Patients |-> IF p = 1 THEN <<FebrilePayload>> ELSE <<NormalPayload>>]
    /\ faultsLeft = 0

ApiNext ==
    \/ CallStart
    \/ RunInBackground
    \/ TaskStart
    \/ StopCall
    \/ DeliverCancel
    \/ StopReturn
    \/ LoopStep

SpecApi == ApiInit /\ [][ApiNext]_vars

----------------------------------------------------------------------------
(* POST /vitals on its own, for every reading and several threshold settings *)

\* a patient's AlertThreshold rows: none at all, the seeded defaults, or rows edited
\* by clinical staff (a heart-rate row with absent bounds, no temperature row)
ThresholdSettings ==
    {[heart_rate |-> <<>>, spo2 |-> <<>>, temperature |-> <<>>],
     [heart_rate |-> <<Band(Some(60), Some(120), None, None)>>,
      spo2 |-> <<Band(Some(94), None, Some(90), None)>>,
      temperature |-> <<>>]}

RequestInit ==
    /\ EvalIdle
    /\ thresholdRows \in [Patients -> ThresholdSettings]
    /\ DbInit
    /\ CtxInit
    /\ SockInit
    /\ logDue = [l \in Logs |-> FALSE]
    /\ twilioEnabled \in BOOLEAN
    /\ now = 0
    /\ condition = [p \in Patients |-> {"Post-Surgery"}]
    /\ patient_states = [p \in Patients |-> <<>>]
    /\ faultsLeft = MaxFaults

RequestNext ==
    \/ ReqSubmit
    \/ ReqFetch
    \/ Flush1("req")
    \/ Thr("req")
    \/ EmitP("req")
    \/ EmitA("req")
    \/ Flush2("req")
    \/ Commit("req")
    \/ EmitV("req")
    \/ RequestFault

SpecRequest == RequestInit /\ [][RequestNext]_vars

----------------------------------------------------------------------------
(* The threshold evaluator on its own: every value against every band *)

OptVals == {None} \cup {Some(v) : v \in 0..MaxVal}

Bands ==
    {Band(minw, maxw, minc, maxc) :
        minw \in OptVals, maxw \in OptVals, minc \in OptVals, maxc \in OptVals}

EvalInit ==
    /\ evalValue \in OptVals
    /\ evalBand \in Bands
    /\ evalResult = <<>>
    /\ thresholdRows = SeededThresholds
    /\ DbInit
    /\ CtxInit
    /\ SockInit
    /\ logDue = [l \in Logs |-> FALSE]
    /\ twilioEnabled = FALSE
    /\ now = 0
    /\ condition = [p \in Patients |-> {"Post-Surgery"}]
    /\ patient_states = [p \in Patients |-> <<>>]
    /\ faultsLeft = 0

Evaluate ==
    /\ evalResult = <<>>
    /\ evalResult' = <<check_threshold(evalValue, evalBand)>>
    /\ UNCHANGED <<evalValue, evalBand>>
    /\ UNCHANGED <<cfgVars, ackVars, sockVars, dbVars, idVars, ctxVars, schedVars, envVars>>

SpecEval == EvalInit /\ [][Evaluate]_vars

----------------------------------------------------------------------------
(* The risk scorer on its own: every small set of stored alerts, recent and old *)

\* alerts in the database when the scorer is called
MaxRiskAlerts == 3

\* calls of the scorer in a run
MaxRiskCalls == 2

\* creation times: more than an hour before the call, an hour before it to the
\* minute, and at the time of the call
RiskTimes == {now - Hour - 1, now - Hour, now}

\* an alert row created at time t
StoredAlert(id, p, severity, t) ==
    [MedAlert(id, p) EXCEPT
        !.severity = severity,
        !.alert_type = IF severity = "critical" THEN "vital_critical" ELSE "vital_warning",
        !.created_at = t]

RiskAlertChoices ==
    {None} \cup
        {Some([patient_id |-> p, severity |-> sev, created_at |-> t]) :
            p \in Patients, sev \in {"critical", "warning"}, t \in RiskTimes}

RiskInit ==
    /\ EvalIdle
    /\ thresholdRows = SeededThresholds
    /\ CtxInit
    /\ SockInit
    /\ logDue = [l \in Logs |-> FALSE]
    /\ twilioEnabled = FALSE
    /\ now = 2 * Hour
    /\ condition = [p \in Patients |-> {"Post-Surgery"}]
    /\ readingRows = {}
    /\ \E draw \in [1..MaxRiskAlerts -> RiskAlertChoices] :
           alertRows =
               {StoredAlert(i, Val(draw[i]).patient_id, Val(draw[i]).severity,
                            Val(draw[i]).created_at) :
                   i \in {j \in 1..MaxRiskAlerts : ~IsNone(draw[j])}}
    /\ \E level \in RiskLevels :
           risk = [p \in Patients |-> IF p = 1 THEN level ELSE "medium"]
    /\ logStatus = [l \in Logs |-> "pending"]
    /\ acknowledged = {}
    /\ acking = {}
    /\ acks = 0
    /\ nextReadingId = 1
    /\ nextAlertId = MaxRiskAlerts + 1
    /\ patient_states = [p \in Patients |-> <<>>]
    /\ faultsLeft = 0

\* the calls of the scorer the log of context c records
RiskCalls(c) == Cardinality({i \in 1..Len(log[c]) : log[c][i].ev = "risk"})

\* _update_patient_risk(db, patient) is called with a patient loaded in a session
\* (line 241); it has returned when its caller's commit is the next await
CallRisk ==
    /\ pc["bg"] \in {"none", "commit"}
    /\ RiskCalls("bg") < MaxRiskCalls
    /\ \E p \in Patients :
           /\ pc["bg"] = "commit" => p = vital["bg"].patient_id
           /\ vital' = [vital EXCEPT !["bg"] = Reading(0, p, NoPayload)]
    /\ prisk' = [prisk EXCEPT !["bg"] = IF pc["bg"] = "none" THEN risk ELSE @]
    /\ pc' = [pc EXCEPT !["bg"] = "risk"]
    /\ UNCHANGED <<sess, vidx, alerts, plist, pidx, pendingLogs, lidx, alert, log>>
    /\ UNCHANGED <<evalVars, cfgVars, ackVars, sockVars, dbVars, idVars, schedVars, envVars>>

RiskNext ==
    \/ CallRisk
    \/ Risk("bg")
    \/ RiskCommit("bg")

SpecRisk == RiskInit /\ [][RiskNext]_vars

----------------------------------------------------------------------------
(* The broadcaster on its own: clients connect, subscribe, unsubscribe and are lost
   while the application publishes *)

SocketInit ==
    /\ EvalIdle
    /\ thresholdRows = SeededThresholds
    /\ DbInit
    /\ CtxInit
    /\ SockInit
    /\ logDue = [l \in Logs |-> FALSE]
    /\ twilioEnabled = FALSE
    /\ now = 0
    /\ condition = [p \in Patients |-> {"Post-Surgery"}]
    /\ patient_states = [p \in Patients |-> <<>>]
    /\ faultsLeft = 0

\* an event of a client is handled
ClientStep ==
    \E sid \in Sids :
        \/ Connect(sid)
        \/ Disconnect(sid)
        \/ SubscribeAlerts(sid)
        \/ \E p \in Patients : SubscribePatient(sid, p) \/ UnsubscribePatient(sid, p)

\* a suspended handler of a client event is resumed
ResumeStep ==
    \E sid \in Sids, p \in Patients : SubscribeAdd(sid, p) \/ UnsubscribeDiscard(sid, p)

\* the application publishes
PublishStep == \E p \in Patients : EmitVitalUpdate(p) \/ EmitAlert(p) \/ EmitAlertAll(p)

SocketNext == ClientStep \/ ResumeStep \/ PublishStep

SpecSocket == SocketInit /\ [][SocketNext]_vars

----------------------------------------------------------------------------
(* The scheduler beside the requests that record a medication as taken or skipped *)

\* routers/public.py mark_medication_taken and routers/medications.py log_medication
\* on a log that is pending: the select and the commit of the request, with no
\* statement of the cycle between the two.  A request for a log whose row a cycle
\* has updated and not yet committed waits for that commit and is left out.
MarkLog(l, status) ==
    /\ logStatus[l] = "pending"
    /\ \A c \in Carriers : l \notin sess[c].missedLogs
    /\ logStatus' = [logStatus EXCEPT ![l] = status]
    /\ UNCHANGED <<readingRows, alertRows, risk>>
    /\ UNCHANGED <<evalVars, cfgVars, ackVars, sockVars, idVars, ctxVars, schedVars, envVars>>

\* the application as main.py runs it, every medication log overdue, no awaited
\* operation raising
MedInit ==
    /\ EvalIdle
    /\ thresholdRows = SeededThresholds
    /\ DbInit
    /\ CtxInit
    /\ SockInit
    /\ logDue = [l \in Logs |-> TRUE]
    /\ twilioEnabled = FALSE
    /\ now = 0
    /\ condition = [p \in Patients |-> {"Post-Surgery"}]
    /\ patient_states = [p \in Patients |-> <<>>]
    /\ faultsLeft = 0

Record == \E l \in Logs, status \in {"taken", "skipped"} : MarkLog(l, status)

MedNext ==
    \/ Startup
    \/ TaskStart
    \/ LoopStep
    \/ Record

SpecMed == MedInit /\ [][MedNext]_vars

----------------------------------------------------------------------------
(* The stream generator on its own: every profile, draw after draw *)

\* condition texts: one that names no profile, one for each profile, and one that
\* names two profiles
Conditions ==
    {{}, {"COPD", "Heart Failure"}} \cup
        {{ProfileKeys[i]} : i \in 1..(Len(ProfileKeys) - 1)}

GenInit ==
    /\ EvalIdle
    /\ thresholdRows = SeededThresholds
    /\ DbInit
    /\ CtxInit
    /\ SockInit
    /\ logDue = [l \in Logs |-> FALSE]
    /\ twilioEnabled = FALSE
    /\ now = 0
    /\ condition \in [Patients -> Conditions]
    /\ patient_states = [p \in Patients |-> <<>>]
    /\ faultsLeft = 0

\* the condition texts the update requests carry: one that names no profile
UpdatedConditions == {{}}

\* routers/patients.py, update_patient: the Patient is loaded, the fields the
\* request sets are assigned and committed.  The requests drawn set
\* condition_summary alone, for a patient the generator has been called for
UpdatePatient(p, cond) ==
    /\ patient_states[p] # <<>>
    /\ condition' = [condition EXCEPT ![p] = cond]
    /\ UNCHANGED <<thresholdRows, logDue, twilioEnabled, now>>
    /\ UNCHANGED <<evalVars, ackVars, sockVars, dbVars, idVars, ctxVars, schedVars, envVars>>

GenNext ==
    \/ \E p \in Patients : GenerateVitalPayload(p)
    \/ \E p \in Patients, cond \in UpdatedConditions : UpdatePatient(p, cond)

SpecGen == GenInit /\ [][GenNext]_vars

-----------------------------------------------------------------------------
(* routers/alerts.py and routers/public.py: acknowledging an alert *)

\* acknowledgement requests received in a run
MaxAcks == 2

Routers == {"alerts", "public"}

AlertIds == {a.id : a \in alertRows}

\* the variant of SetAcknowledged that flips the flag
SetAcknowledgedToggle(id) ==
    IF id \in acknowledged THEN acknowledged \ {id} ELSE acknowledged \cup {id}

\* alert.is_acknowledged = True (routers/alerts.py line 247, routers/public.py
\* line 489), as the commit writes it
SetAcknowledged(id) == acknowledged \cup {id}

\* an acknowledge_alert handler suspended at an await: the alert it loaded and the
\* await it is at
Acking(n, router, id, at) == [n |-> n, router |-> router, id |-> id, at |-> at]

\* acknowledge_alert of either router: the select of the Alert returned.  A request
\* for an id that has no row is answered 404 and changes nothing
AckSelect(router, id) ==
    /\ acks < MaxAcks
    /\ acks' = acks + 1
    /\ acking' =
           IF id \in AlertIds
           THEN acking \cup {Acking(acks + 1, router, id, "commit")}
           ELSE acking
    /\ UNCHANGED acknowledged
    /\ UNCHANGED <<evalVars, cfgVars, dbVars, idVars, ctxVars, schedVars, envVars, sockVars>>

\* routers/alerts.py lines 237-244: the Patient is loaded and the caller is not the
\* patient's doctor or caregiver: 403, nothing is written
AckDenied(h) ==
    /\ h \in acking
    /\ h.router = "alerts"
    /\ h.at = "commit"
    /\ acking' = acking \ {h}
    /\ UNCHANGED <<acknowledged, acks>>
    /\ UNCHANGED <<evalVars, cfgVars, dbVars, idVars, ctxVars, schedVars, envVars, sockVars>>

\* the fields are set and db.commit() returned (routers/alerts.py lines 247-251,
\* routers/public.py lines 489-491).  The public handler returns here
AckCommit(h) ==
    /\ h \in acking
    /\ h.at = "commit"
    /\ acknowledged' = SetAcknowledged(h.id)
    /\ acking' =
           IF h.router = "alerts"
           THEN (acking \ {h}) \cup {Acking(h.n, h.router, h.id, "emit")}
           ELSE acking \ {h}
    /\ UNCHANGED acks
    /\ UNCHANGED <<evalVars, cfgVars, dbVars, idVars, ctxVars, schedVars, envVars, sockVars>>

\* routers/alerts.py lines 252-255: db.refresh(alert) returned and
\* emit_alert_acknowledged publishes to alerts:all; its data names no patient
AckEmit(h) ==
    /\ h \in acking
    /\ h.at = "emit"
    /\ Emit("alert:acknowledged", AlertsAll, 0)
    /\ acking' = acking \ {h}
    /\ UNCHANGED <<acknowledged, acks>>
    /\ UNCHANGED <<conn, rooms, patient_rooms, inflight>>
    /\ UNCHANGED <<evalVars, cfgVars, dbVars, idVars, ctxVars, schedVars, envVars>>

\* the ids a request may name: those the run can assign, and one that has no row
AckIds == 1..(NumLogs + 1)

Acknowledge ==
    \/ \E router \in Routers, id \in AckIds : AckSelect(router, id)
    \/ \E h \in acking : AckDenied(h)
    \/ \E h \in acking : AckCommit(h)
    \/ \E h \in acking : AckEmit(h)

\* the application as main.py runs it, every medication log overdue, awaited
\* operations may raise, and clients acknowledging alerts
AckInit ==
    /\ EvalIdle
    /\ thresholdRows = SeededThresholds
    /\ DbInit
    /\ CtxInit
    /\ SockInit
    /\ logDue = [l \in Logs |-> TRUE]
    /\ twilioEnabled = FALSE
    /\ now = 0
    /\ condition = [p \in Patients |-> {"Post-Surgery"}]
    /\ patient_states = [p \in Patients |-> <<>>]
    /\ faultsLeft = MaxFaults

AckNext ==
    \/ Startup
    \/ TaskStart
    \/ LoopStep
    \/ Raise
    \/ Rejected
    \/ Acknowledge

SpecAck == AckInit /\ [][AckNext]_vars

----------------------------------------------------------------------------
(* Properties of the threshold evaluator and of the alert generator *)

\* a band with all four bounds, ordered
\* min_critical < min_warning <= max_warning < max_critical
WellFormed(b) ==
    /\ ~IsNone(b.min_critical) /\ ~IsNone(b.min_warning)
    /\ ~IsNone(b.max_warning) /\ ~IsNone(b.max_critical)
    /\ Val(b.min_critical) < Val(b.min_warning)
    /\ Val(b.min_warning) <= Val(b.max_warning)
    /\ Val(b.max_warning) < Val(b.max_critical)

\* C8: for a present value v and a well-formed band, check_threshold returns critical
\* iff v < min_critical or v > max_critical, warning iff v is outside
\* [min_warning, max_warning] and not critical, and no breach otherwise; a value
\* equal to a bound does not breach that bound.
C8_Evaluator ==
    (evalResult # <<>> /\ ~IsNone(evalValue) /\ WellFormed(evalBand)) =>
        LET v == Val(evalValue)
            b == evalBand
            r == evalResult[1]
            crit == v < Val(b.min_critical) \/ v > Val(b.max_critical)
            outside == v < Val(b.min_warning) \/ v > Val(b.max_warning)
        IN  /\ r.severity = "critical" <=> crit
            /\ r.severity = "warning" <=> (outside /\ ~crit)
            /\ r.severity = "none" <=> ~outside
            /\ r.severity \in {"critical", "warning", "none"}

\* a value equal to max_critical of a well-formed band was evaluated: a warning
C8_Witness ==
    /\ evalResult # <<>>
    /\ ~IsNone(evalValue)
    /\ WellFormed(evalBand)
    /\ evalValue = evalBand.max_critical
    /\ evalResult[1].severity = "warning"

\* the severity a value has against a band whose bounds may be absent, stated without
\* the evaluator
IsCritical(v, b) ==
    \/ ~IsNone(b.min_critical) /\ v < Val(b.min_critical)
    \/ ~IsNone(b.max_critical) /\ v > Val(b.max_critical)

IsWarning(v, b) ==
    /\ ~IsCritical(v, b)
    /\ \/ ~IsNone(b.min_warning) /\ v < Val(b.min_warning)
       \/ ~IsNone(b.max_warning) /\ v > Val(b.max_warning)

\* the bound that value v breaches
BreachedBound(v, b) ==
    IF IsCritical(v, b)
    THEN IF ~IsNone(b.min_critical) /\ v < Val(b.min_critical)
         THEN b.min_critical ELSE b.max_critical
    ELSE IF ~IsNone(b.min_warning) /\ v < Val(b.min_warning)
         THEN b.min_warning ELSE b.max_warning

\* vital type t is present on reading v and breaches the patient's thresholds
Breaches(v, t) ==
    /\ ~IsNone(v[t])
    /\ LET b == get_thresholds_for_patient(v.patient_id, t)
       IN  IsCritical(Val(v[t]), b) \/ IsWarning(Val(v[t]), b)

\* alert a is the alert due for vital type t of reading v
AlertFor(a, v, t) ==
    LET b == get_thresholds_for_patient(v.patient_id, t)
        crit == IsCritical(Val(v[t]), b)
    IN  /\ a.patient_id = v.patient_id
        /\ a.vital_reading_id = Some(v.id)
        /\ a.vital_type = t
        /\ a.vital_value = v[t]
        /\ a.threshold_breached = BreachedBound(Val(v[t]), b)
        /\ a.severity = IF crit THEN "critical" ELSE "warning"
        /\ a.alert_type = IF crit THEN "vital_critical" ELSE "vital_warning"

\* C9: when check_vital_and_create_alerts returns, the list it returns holds exactly
\* one alert for each of heart_rate, spo2 and temperature that is present on the
\* reading and breaches the patient's thresholds, and nothing else; these are the
\* alerts it created; each references the reading and records the vital type, the
\* value, the breached bound, and vital_critical or vital_warning by severity.
C9_OneAlertPerBreach ==
    pc["req"] = "commit" =>
        LET v == vital["req"]
            A == alerts["req"]
            types == {VitalTypes[n] : n \in 1..Len(VitalTypes)}
        IN  /\ \A t \in types :
                   Cardinality({i \in 1..Len(A) : A[i].vital_type = t}) =
                       IF Breaches(v, t) THEN 1 ELSE 0
            /\ \A i \in 1..Len(A) :
                   /\ A[i].vital_type \in types
                   /\ AlertFor(A[i], v, A[i].vital_type)
            /\ sess["req"].alerts = {A[i] : i \in 1..Len(A)}
            /\ Cardinality(sess["req"].alerts) = Len(A)

\* a reading with three breaching vitals, warning and critical ones among them, has
\* been evaluated
C9_Witness ==
    /\ pc["req"] = "commit"
    /\ Len(alerts["req"]) = 3
    /\ \E i, j \in 1..3 :
           alerts["req"][i].severity = "warning" /\ alerts["req"][j].severity = "critical"

----------------------------------------------------------------------------
(* Properties of the scheduler *)

\* C1: stop() never aborts a cycle mid-way: a coroutine that is at an await of a
\* patient's processing leaves it only to go on with the cycle, and stop() returns
\* only when no coroutine is inside a cycle.
C1_CycleRunsToCompletion ==
    [][/\ \A c \in Carriers :
              pc[c] \in PatientPcs => pc'[c] \in PatientPcs \cup {"close"}
       /\ (stopState # "returned" /\ stopState' = "returned") =>
              \A c \in Carriers : pc'[c] \notin CyclePcs]_vars

\* no loop is entered and the loops in progress are where they were
NoLoopTouched ==
    /\ running'
    /\ cycles' = cycles
    /\ \A c \in Carriers :
          /\ pc'[c] \in LoopPcs => pc'[c] = pc[c]
          /\ pc[c] \in LoopPcs => pc'[c] = pc[c]
    /\ UNCHANGED <<sess, dbVars, log>>

\* C2 as the code has it: a call of start() or run_in_background() while Running
\* leaves the scheduler Running, enters no second loop, begins no cycle and leaves
\* every loop in progress where it was; start() returns at once; run_in_background()
\* creates no task while the task it holds is alive (when it holds none that is
\* alive it creates one, whose start() returns at once).
C2_NoSecondLoop ==
    [][running =>
          /\ CallStart => (NoLoopTouched /\ pc'["fg"] = "returned")
          /\ TaskStart => (NoLoopTouched /\ pc'["bg"] = "returned")
          /\ RunInBackground =>
                 /\ NoLoopTouched
                 /\ (task = "bg" /\ pc["bg"] \notin DonePcs) => UNCHANGED <<task, pc>>]_vars

\* the loop runs in a coroutine that awaited start() itself, and a task that
\* run_in_background() created meanwhile has returned from its start() at once
C2_Witness ==
    /\ running
    /\ cycles = 1
    /\ pc["fg"] \in CyclePcs
    /\ pc["bg"] = "returned"

\* C2 as stated: a call of start() or run_in_background() while Running is a no-op
\* that creates neither a second loop nor a task.
C2_NoSecondLoopNorTask ==
    [][(running /\ (CallStart \/ TaskStart \/ RunInBackground)) =>
          /\ NoLoopTouched
          /\ UNCHANGED task
          /\ pc'["bg"] = "created" => pc["bg"] = "created"]_vars

\* C3: once stop() has returned, and until start() or run_in_background() is called
\* again, no cycle begins and no coroutine of the scheduler takes a step of a cycle:
\* no statement, flush, commit or close on a session and no broadcast.
C3_QuietAfterStop ==
    [][(stopState = "returned" /\ stopState' = "returned") =>
          UNCHANGED <<pc, sess, vidx, dbVars, cycles, log>>]_vars

\* the events of carrier c's cycle that concern patient p and reading id
HasEvent(c, ev, p, id) == \E i \in 1..Len(log[c]) : log[c][i] = Event(ev, p, id)

\* an operation of patient p's own processing raised in carrier c's cycle
OwnFault(c, p) == \E i \in 1..Len(log[c]) : log[c][i].ev = "error" /\ log[c][i].p = p

\* patient p has had a reading generated, persisted, evaluated and broadcast
Processed(c, p) ==
    \E id \in 1..(nextReadingId - 1) :
        /\ HasEvent(c, "generated", p, id)
        /\ HasEvent(c, "evaluated", p, id)
        /\ HasEvent(c, "committed", p, id)
        /\ HasEvent(c, "vital:update", p, id)
        /\ \E r \in readingRows : r.id = id /\ r.patient_id = p

\* C4: at the end of a cycle that fetched the patients, every patient none of whose
\* own operations raised has had its reading generated, persisted, evaluated and
\* broadcast.
C4_Isolation ==
    \A c \in Carriers :
        pc[c] = "close" =>
            \A n \in 1..Len(plist[c]) :
                OwnFault(c, plist[c][n]) \/ Processed(c, plist[c][n])

\* C5: a step makes durable only writes of the patient step that takes it: a reading
\* that becomes durable is the reading in progress, an alert that becomes durable and
\* a medication log that becomes missed belong to the patient in progress.
C5_IndependentCommits ==
    [][/\ \A r \in readingRows' \ readingRows :
              \E c \in Carriers : pc[c] \in PatientPcs /\ vital[c].id = r.id
       /\ \A a \in alertRows' \ alertRows :
              \E c \in Carriers :
                  /\ pc[c] \in PatientPcs
                  /\ a.patient_id = vital[c].patient_id
                  /\ a.vital_reading_id \in {None, Some(vital[c].id)}
       /\ \A l \in Logs :
              logStatus'[l] # logStatus[l] =>
                  \E c \in Carriers :
                      pc[c] \in PatientPcs /\ LogPatient(l) = vital[c].patient_id]_vars

\* C6: a fault while the patients are fetched makes the cycle a no-op and leaves the
\* scheduler Running; and while it is Running with its loop alive, the next cycle is
\* begun, as long as the run has cycles left.
C6_NeverFatal ==
    /\ [][\A c \in Carriers :
             (pc[c] = "fetch" /\ pc'[c] \in {"close", "returned"}) =>
                 /\ pc'[c] = "close"
                 /\ UNCHANGED <<dbVars, running>>]_vars
    /\ \A n \in 0..(MaxCycles - 1) :
           (running /\ cycles = n /\ pc["bg"] \in LoopPcs) ~> (cycles > n \/ ~running)

\* the first cycle failed while the patients were fetched, nothing was written, and
\* the second cycle has begun
C6_Witness ==
    /\ running
    /\ cycles = 2
    /\ pc["bg"] = "fetch"
    /\ faultsLeft = 0
    /\ readingRows = {}
    /\ alertRows = {}

\* the alerts carrier c's session or the database holds
KnownAlerts(c) == alertRows \cup sess[c].alerts

\* C7: in the events of a cycle, every alert:new of an alert of a reading comes after
\* the recomputation of the patient's risk for that reading, which comes after the
\* creation of the alert.
C7_RiskBeforeBroadcast ==
    \A c \in Carriers :
        \A i \in 1..Len(log[c]) :
            (/\ log[c][i].ev \in {"alert:new@patient", "alert:new@all"}
             /\ \E a \in KnownAlerts(c) :
                    a.id = log[c][i].ref /\ ~IsNone(a.vital_reading_id)) =>
                \E j \in 1..(i - 1) :
                    /\ log[c][j].ev = "risk"
                    /\ log[c][j].p = log[c][i].p
                    /\ \E k \in 1..(j - 1) :
                           log[c][k] = Event("alert_created", log[c][i].p, log[c][i].ref)

\* C10: every committed reading has is_anomaly = TRUE exactly when a committed alert
\* references it.
C10_AnomalyIffAlert ==
    \A r \in readingRows :
        r.is_anomaly <=> \E a \in alertRows : a.vital_reading_id = Some(r.id)

----------------------------------------------------------------------------
(* Properties of the notification dispatch *)

\* the dispatch events of the alert with identity id in context c's log
Dispatched(c, id) ==
    {log[c][i].ev : i \in {j \in 1..Len(log[c]) : log[c][j].ref = id}} \cap
        {"whatsapp:sent", "whatsapp:not_sent", "whatsapp:raised"}

\* the alerts created in the run of context c that its log covers
CreatedAlerts(c) ==
    {a \in KnownAlerts(c) : HasEvent(c, "alert_created", a.patient_id, a.id)}

\* C11: an alert's notification_sent is TRUE exactly when the alert is critical and
\* the dispatch made for it reported success; a critical alert whose dispatch returned
\* False or raised keeps notification_sent = FALSE; no dispatch is made for a warning.
C11_NotificationReflectsDispatch ==
    \A c \in Ctx :
        \A a \in CreatedAlerts(c) :
            /\ a.notification_sent <=>
                   (a.severity = "critical" /\ Dispatched(c, a.id) = {"whatsapp:sent"})
            /\ a.severity # "critical" => Dispatched(c, a.id) = {}

\* the dispatch of the alert with identity id raised or reported failure
DispatchFailed(c, id) ==
    Dispatched(c, id) \cap {"whatsapp:not_sent", "whatsapp:raised"} # {}

\* C12: a dispatch that raises or reports failure does not fail the creation of the
\* alert: the step that makes the dispatch leaves the alert added to the session and
\* to the returned list and goes on to publish it; the remaining vital types of the
\* reading are evaluated (every breaching one has its alert when the generator has
\* returned); and once the reading is committed the alert is committed with it.
C12_DispatchNeverFailsCreation ==
    /\ [][\A c \in Ctx :
             (/\ Len(log'[c]) > Len(log[c])
              /\ log'[c][Len(log'[c])].ev \in {"whatsapp:not_sent", "whatsapp:raised"}) =>
                 /\ pc'[c] = "emitP"
                 /\ alerts'[c] # <<>>
                 /\ alerts'[c][Len(alerts'[c])].id = log'[c][Len(log'[c])].ref
                 /\ alerts'[c][Len(alerts'[c])] \in sess'[c].alerts]_vars
    /\ [](\A c \in Ctx :
             \A i \in 1..Len(alerts[c]) :
                 DispatchFailed(c, alerts[c][i].id) =>
                     /\ pc[c] \in {"risk", "riskCommit", "commit", "emitV"} =>
                            \A n \in 1..Len(VitalTypes) :
                                Breaches(vital[c], VitalTypes[n]) =>
                                    \E j \in 1..Len(alerts[c]) :
                                        AlertFor(alerts[c][j], vital[c], VitalTypes[n])
                     /\ pc[c] = "emitV" => alerts[c][i] \in alertRows)

\* the dispatch for a critical heart rate raised; the alert was created all the same,
\* a later vital type of the reading was evaluated and has its alert, and both alerts
\* are committed
C12_Witness ==
    /\ pc["req"] = "emitV"
    /\ Len(alerts["req"]) >= 2
    /\ alerts["req"][1].vital_type = "heart_rate"
    /\ "whatsapp:raised" \in Dispatched("req", alerts["req"][1].id)
    /\ ~alerts["req"][1].notification_sent
    /\ \A i \in 1..Len(alerts["req"]) : alerts["req"][i] \in alertRows

----------------------------------------------------------------------------
(* Properties of the risk scorer *)

\* the stored alerts of patient p of a severity that are at most an hour old
Recent(p, severity) ==
    {a \in alertRows :
        a.patient_id = p /\ a.severity = severity /\ now - a.created_at <= Hour}

\* the level the decision table gives for cc critical and wc warning alerts
TableLevel(cc, wc) ==
    CASE cc >= 2 -> "critical"
      [] cc = 1 -> "high"
      [] cc = 0 /\ wc >= 3 -> "high"
      [] cc = 0 /\ wc \in {1, 2} -> "medium"
      [] cc = 0 /\ wc = 0 -> "low"

RiskWrites(c) == Cardinality({i \in 1..Len(log[c]) : log[c][i].ev = "risk:updated"})

\* the level the table gives patient p from the stored alerts
StoredLevel(p) ==
    TableLevel(Cardinality(Recent(p, "critical")), Cardinality(Recent(p, "warning")))

\* C14: the scorer writes the patient record only when the level it computes differs
\* from the stored one: when it decides, it goes on to write and commit exactly when
\* the levels differ, and otherwise changes nothing; the patient record changes only
\* in that commit; a first call that changes the level makes one write, and a second
\* call with no new alert makes none and leaves the patient as it was.
C14_WriteOnlyOnChange ==
    /\ [][LET p == vital["bg"].patient_id
          IN  /\ (pc["bg"] = "risk" /\ pc'["bg"] # "risk") =>
                     /\ pc'["bg"] = "riskCommit" <=> risk[p] # StoredLevel(p)
                     /\ pc'["bg"] # "riskCommit" =>
                            (pc'["bg"] = "commit" /\ UNCHANGED <<sess, prisk, dbVars>>)
              /\ risk' # risk =>
                     /\ pc["bg"] = "riskCommit"
                     /\ RiskWrites("bg")' = RiskWrites("bg") + 1
                     /\ \A q \in Patients \ {p} : risk'[q] = risk[q]]_vars
    /\ [](/\ RiskWrites("bg") <= 1
          /\ RiskCalls("bg") >= 2 => pc["bg"] # "riskCommit"
          /\ \A p \in Patients :
                 (RiskCalls("bg") >= 1 /\ pc["bg"] = "commit" /\ p = vital["bg"].patient_id)
                     => risk[p] = StoredLevel(p))

\* the scorer was called twice for a patient: the first call changed the level with
\* one write, the second made none
C14_Witness ==
    /\ RiskCalls("bg") = 2
    /\ pc["bg"] = "commit"
    /\ RiskWrites("bg") = 1
    /\ log["bg"][2].ev = "risk:updated"
    /\ log["bg"][Len(log["bg"])].ev = "risk"

\* C15: at the end of a patient step of the cycle, if the step created an alert for
\* the patient, be it a vital alert or a medication-missed alert, then the step
\* recomputed the patient's risk level.
C15_RiskRecomputedOnAlert ==
    \A c \in Carriers :
        \A i \in 1..Len(log[c]) :
            log[c][i].ev = "simulated" =>
                \A j \in 1..(i - 1) :
                    (log[c][j].ev = "alert_created" /\ log[c][j].p = log[c][i].p) =>
                        \E k \in 1..(i - 1) :
                            log[c][k].ev = "risk" /\ log[c][k].p = log[c][i].p

----------------------------------------------------------------------------
(* Properties of the medication sweep *)

\* the medication-missed alerts of patient p among the alerts A (an alert names
\* its patient, not the log it was created for)
MissedAlerts(A, p) ==
    {a \in A : a.alert_type = "medication_missed" /\ a.patient_id = p}

LogsOf(p) == {l \in Logs : LogPatient(l) = p}

\* C16: a pending log past its grace period is set to missed and yields exactly one
\* medication-missed alert, of severity warning, which is broadcast to the patient's
\* topic and to alerts:all; it never yields a second one; a log inside its grace
\* period stays pending and yields no alert.
C16_MissedOnce ==
    /\ \A p \in Patients :
           LET stored == MissedAlerts(alertRows, p)
           IN  /\ Cardinality(stored) =
                      Cardinality({l \in LogsOf(p) : logStatus[l] = "missed"})
               /\ \A a \in stored : a.severity = "warning"
               /\ \A c \in Carriers :
                      /\ \A a \in stored :
                             HasEvent(c, "alert_created", a.patient_id, a.id) =>
                                 /\ HasEvent(c, "alert:new@patient", a.patient_id, a.id)
                                 /\ HasEvent(c, "alert:new@all", a.patient_id, a.id)
                      /\ Cardinality(MissedAlerts(KnownAlerts(c), p)) <=
                             Cardinality({l \in LogsOf(p) : logDue[l]})
    /\ \A l \in Logs :
           ~logDue[l] =>
               /\ logStatus[l] = "pending"
               /\ \A c \in Carriers : l \notin sess[c].missedLogs

----------------------------------------------------------------------------
(* Properties of the broadcaster *)

\* the event a publish to topic t makes, numbered n
Published(e, t, n) == e.topic = t /\ e.n = n

\* C17: a publish to a topic delivers exactly one event to each connection that is
\* subscribed to the topic at that time and nothing to any other connection.  A
\* connection is subscribed to a topic from its subscribe request until its
\* unsubscribe request or its loss; nothing but a publish delivers anything (no
\* buffering, no replay), and no connection receives a publish twice.
C17_DeliveryToSubscribers ==
    /\ [][
           /\ published' # published =>
                 /\ published' = published + 1
                 /\ \E t \in Topics :
                        \A sid \in Sids :
                            IF sid \in rooms[t]
                            THEN /\ Len(received'[sid]) = Len(received[sid]) + 1
                                 /\ SubSeq(received'[sid], 1, Len(received[sid])) = received[sid]
                                 /\ Published(received'[sid][Len(received'[sid])], t, published')
                            ELSE received'[sid] = received[sid]
           /\ published' = published => received' = received
           /\ \A sid \in Sids :
                  /\ \A p \in Patients :
                         /\ (sid \in rooms'[PatientTopic(p)] \ rooms[PatientTopic(p)])
                                => SubscribePatient(sid, p)
                         /\ (sid \in rooms[PatientTopic(p)] \ rooms'[PatientTopic(p)])
                                => (UnsubscribePatient(sid, p) \/ Disconnect(sid))
                  /\ (sid \in rooms'[AlertsAll] \ rooms[AlertsAll]) => SubscribeAlerts(sid)
                  /\ (sid \in rooms[AlertsAll] \ rooms'[AlertsAll]) => Disconnect(sid)]_vars
    /\ [](\A sid \in Sids :
             /\ \A i, j \in 1..Len(received[sid]) :
                    received[sid][i].n = received[sid][j].n => i = j
             /\ \A t \in Topics : sid \in rooms[t] => conn[sid] = "open")

\* connection 1 subscribed to a patient's topic and received the one event published
\* to it; after it was lost a second publish to the topic reached nobody; connection
\* 2, open all along and never subscribed, received nothing
C17_Witness ==
    /\ published = 2
    /\ conn[1] = "closed"
    /\ conn[2] = "open"
    /\ Len(received[1]) = 1
    /\ received[1][1] = [name |-> "vital:update", topic |-> PatientTopic(1), n |-> 1]
    /\ received[2] = <<>>

\* C18: a connection that is lost is in no room of the server and in no set of the
\* subscription table patient_rooms, whatever subscribe and unsubscribe requests of
\* it were in progress when it was lost.
C18_LostConnectionForgotten ==
    \A sid \in Sids :
        conn[sid] = "closed" =>
            /\ \A t \in Topics : sid \notin rooms[t]
            /\ \A p \in Patients : sid \notin patient_rooms[p]

\* the publishes of event name to topic t whose data is of patient p
Sent(name, t, p) ==
    {i \in 1..Len(emitted) : emitted[i] = [name |-> name, topic |-> t, patient_id |-> p]}

C20_IdempotentMembership ==
    /\ [][
           \A sid \in Sids :
               /\ \A p \in Patients :
                      /\ (SubscribePatient(sid, p) /\ sid \in rooms[PatientTopic(p)])
                             => rooms' = rooms
                      /\ (SubscribeAdd(sid, p) /\ sid \in patient_rooms[p])
                             => patient_rooms' = patient_rooms
                      /\ (UnsubscribePatient(sid, p) /\ sid \notin rooms[PatientTopic(p)])
                             => rooms' = rooms
                      /\ (UnsubscribeDiscard(sid, p) /\ sid \notin patient_rooms[p])
                             => patient_rooms' = patient_rooms
                      /\ (conn[sid] = "open" /\ Cardinality(ClientHandlers) < MaxInFlight)
                             => /\ ENABLED SubscribePatient(sid, p)
                                /\ ENABLED UnsubscribePatient(sid, p)
               /\ (SubscribeAlerts(sid) /\ sid \in rooms[AlertsAll]) => rooms' = rooms]_vars
    /\ [](\A sid \in Sids :
             \A i, j \in 1..Len(received[sid]) :
                 (received[sid][i].n = received[sid][j].n) => (i = j))

\* connection 1 subscribed to patient 1, and its second subscribe_patient for
\* patient 1 is past enter_room: it is once in the room and once in the table, and
\* it received the one publish to the topic once
C20_Witness ==
    /\ inflight = {Handler("subscribe", 1, 1)}
    /\ rooms[PatientTopic(1)] = {1}
    /\ patient_rooms[1] = {1}
    /\ published = 1
    /\ received[1] = <<[name |-> "vital:update", topic |-> PatientTopic(1), n |-> 1]>>

----------------------------------------------------------------------------
(* Properties of the threshold store *)

\* the system default entry of vital type t, as the table of alert.py:15-34 gives it
DefaultEntry(t) ==
    CASE t = "heart_rate" -> Band(Some(50), Some(100), Some(40), Some(120))
      [] t = "spo2" -> Band(Some(92), None, Some(88), None)
      [] t = "temperature" -> Band(Some(360), Some(375), Some(350), Some(385))

\* the bounds due to patient p for vital type t
BoundsDue(p, t) ==
    IF thresholdRows[p][t] = <<>> THEN DefaultEntry(t) ELSE thresholdRows[p][t][1]

\* C21: the thresholds of a patient for a vital type are the patient's own record
\* when there is one and otherwise exactly the system default entry of that vital
\* type; and when the lookup has returned, with or without a record, the value is
\* evaluated against these bounds: an alert is created for the breached bound, or
\* the loop goes on to the next vital, and no error is raised.
C21_ThresholdsOrDefaults ==
    /\ [](\A p \in Patients :
             \A n \in 1..Len(VitalTypes) :
                 get_thresholds_for_patient(p, VitalTypes[n]) = BoundsDue(p, VitalTypes[n]))
    /\ [][
           Thr("req") =>
               LET v == vital["req"]
                   t == VitalTypes[vidx["req"]]
                   b == BoundsDue(v.patient_id, t)
                   x == Val(v[t])
                   A == alerts'["req"]
               IN  IF IsCritical(x, b) \/ IsWarning(x, b)
                   THEN /\ Len(A) = Len(alerts["req"]) + 1
                        /\ A[Len(A)].vital_type = t
                        /\ A[Len(A)].threshold_breached = BreachedBound(x, b)
                        /\ A[Len(A)].severity =
                               IF IsCritical(x, b) THEN "critical" ELSE "warning"
                        /\ pc'["req"] = "emitP"
                   ELSE /\ A = alerts["req"]
                        /\ pc'["req"] \in {"thr", "flush2"}]_vars

\* a patient with no threshold record at all sent a heart rate of 130 and a
\* temperature of 38.0: the evaluation ran to its end and created a critical alert
\* for the default bound 120 and a warning alert for the default bound 37.5
C21_Witness ==
    /\ pc["req"] = "commit"
    /\ \A n \in 1..Len(VitalTypes) : thresholdRows[vital["req"].patient_id][VitalTypes[n]] = <<>>
    /\ Len(alerts["req"]) = 2
    /\ alerts["req"][1].threshold_breached = Some(120)
    /\ alerts["req"][1].severity = "critical"
    /\ alerts["req"][2].threshold_breached = Some(375)
    /\ alerts["req"][2].severity = "warning"

----------------------------------------------------------------------------
(* The medication sweep, log by log *)

\* the awaits of the processing of one log of pending_logs
LogPcs == {"medQ", "medEmitP", "medEmitA"}

\* C24: when an operation awaited while one overdue log of a patient is processed
\* raises and the patient has further overdue logs, the sweep goes on with the next
\* of them in the same cycle: it stays with the patient and takes up the next log.
C24_PerLogIsolation ==
    [][
       \A c \in Carriers :
           (/\ PatientFault(c)
            /\ pc[c] \in LogPcs
            /\ lidx[c] < Len(pendingLogs[c]))
               => /\ pc'[c] = "medQ"
                  /\ lidx'[c] = lidx[c] + 1
                  /\ vital'[c].patient_id = vital[c].patient_id]_vars

\* C25: a medication log that is recorded as taken or skipped keeps that status
\* whatever the sweep does at the same time, and no medication-missed alert is
\* created for it: the sweep creates an alert only for a log that is pending.
C25_TakenNeverMissed ==
    [][
       /\ \A l \in Logs :
              logStatus[l] \in {"taken", "skipped"} => logStatus'[l] = logStatus[l]
       /\ \A c \in Carriers :
              MedQ(c) => logStatus[pendingLogs[c][lidx[c]]] = "pending"]_vars

\* C26: at most one ingestion loop executes cycles at any time, whatever the order
\* of the calls of start(), run_in_background() and stop(): no two coroutines are
\* inside _run_simulation_cycle at once.
C26_SingleLoop == Cardinality({c \in Carriers : pc[c] \in CyclePcs}) <= 1

\* patient p has a critical or warning alert of the trailing hour in the database
RecentAlert(p) ==
    \E a \in alertRows :
        /\ a.patient_id = p
        /\ a.severity \in {"critical", "warning"}
        /\ a.created_at >= now - Hour

\* C27: risk decays while the scheduler runs: when a cycle has processed, without a
\* fault, a patient who has no critical or warning alert within the trailing hour,
\* the stored risk level of the patient is LOW by the end of the cycle.
C27_RiskDecays ==
    \A c \in Carriers :
        pc[c] = "close" =>
            \A p \in Patients :
                (/\ \E i \in 1..Len(log[c]) : log[c][i].ev = "simulated" /\ log[c][i].p = p
                 /\ ~RecentAlert(p))
                    => risk[p] = "low"

\* C28: an alert:new event is published only after its alert has been inserted, and
\* no alert is broadcast that is never committed: when a cycle ends, every alert:new
\* event it published is of an alert that is stored, for the same patient.
C28_BroadcastIsStored ==
    /\ [][
           \A c \in Carriers :
               /\ EmitP(c) => alerts[c][Len(alerts[c])].id \in sess'[c].inserted
               /\ MedEmitP(c) => alert[c][1].id \in sess'[c].inserted]_vars
    /\ [](\A c \in Carriers :
             pc[c] = "close" =>
                 \A i \in 1..Len(log[c]) :
                     log[c][i].ev \in {"alert:new@patient", "alert:new@all"} =>
                         \E a \in alertRows :
                             a.id = log[c][i].ref /\ a.patient_id = log[c][i].p)

----------------------------------------------------------------------------
(* The evaluator on any band *)

\* the four tests in their order: the bound, the side a value must be on to breach
\* it, the severity and the kind of the breach
Tests(b) ==
    <<[bound |-> b.min_critical, below |-> TRUE, severity |-> "critical",
       kind |-> "below_critical"],
      [bound |-> b.max_critical, below |-> FALSE, severity |-> "critical",
       kind |-> "above_critical"],
      [bound |-> b.min_warning, below |-> TRUE, severity |-> "warning",
       kind |-> "below_warning"],
      [bound |-> b.max_warning, below |-> FALSE, severity |-> "warning",
       kind |-> "above_warning"]>>

\* value v breaches the bound of test t; an absent bound is breached by nothing
Matches(v, t) ==
    /\ ~IsNone(t.bound)
    /\ IF t.below THEN v < Val(t.bound) ELSE v > Val(t.bound)

\* C23: for every value and every band, malformed bands and absent bounds included,
\* the evaluator returns the severity, kind and bound of the first test that matches
\* in the order critical-low, critical-high, warning-low, warning-high; no breach
\* when none matches or the value is absent.
C23_FirstMatchWins ==
    evalResult # <<>> =>
        LET M == {i \in 1..4 : /\ ~IsNone(evalValue)
                               /\ Matches(Val(evalValue), Tests(evalBand)[i])}
        IN  IF M = {}
            THEN evalResult[1] = NoBreach
            ELSE LET t == Tests(evalBand)[CHOOSE i \in M : \A j \in M : i <= j]
                 IN  evalResult[1] =
                         [severity |-> t.severity, breach_type |-> t.kind,
                          threshold_value |-> t.bound]

\* a malformed band whose critical maximum lies below its warning minimum, no
\* critical minimum, and a value between the two: it is below the warning minimum,
\* and the evaluator reported the critical maximum
C23_Witness ==
    /\ evalResult # <<>>
    /\ ~IsNone(evalValue)
    /\ IsNone(evalBand.min_critical)
    /\ ~IsNone(evalBand.max_critical)
    /\ ~IsNone(evalBand.min_warning)
    /\ Val(evalBand.max_critical) < Val(evalValue)
    /\ Val(evalValue) < Val(evalBand.min_warning)
    /\ evalResult[1] = Breach("critical", "above_critical", evalBand.max_critical)

----------------------------------------------------------------------------
(* Properties of the stream generator *)

Channels == {"heart_rate", "temperature", "spo2"}

Dist(a, b) == IF a >= b THEN a - b ELSE b - a

\* C22: two consecutive values v1, v2 of a channel of a patient are no further apart
\* than 0.15 * (max - min) of the range selected for the draw of v2, for every
\* profile and every selection of ranges.
C22_Smoothness ==
    [][
       \A p \in Patients :
           (patient_states[p] # <<>> /\ patient_states'[p] # patient_states[p]) =>
               \A ch \in Channels :
                   LET v1 == Val(patient_states[p][1][ch])
                       v2 == Val(patient_states'[p][1][ch])
                   IN  \E r \in SelectedRanges(ch, get_patient_profile(condition[p])) :
                           /\ v2 \in DrawFrom(r, Some(v1))
                           /\ Fine * Dist(v2, v1) <= 15 * (r.max - r.min)]_vars

\* the envelope of a channel under a profile: from the lowest minimum to the
\* highest maximum of the normal range and the range the profile is biased to
InEnvelope(ch, profile, v) ==
    /\ \E r \in SelectedRanges(ch, profile) : r.min <= v
    /\ \E r \in SelectedRanges(ch, profile) : v <= r.max

InNormal(ch, v) ==
    /\ VITAL_RANGES[ch]["normal"].min <= v
    /\ v <= VITAL_RANGES[ch]["normal"].max

\* C30: every value a generator call returns for a channel lies within the
\* envelope of the channel's normal range and the range the patient's profile is
\* biased to, and within the normal range when the patient's condition matches no
\* profile.
C30_WithinEnvelope ==
    [][
       \A p \in Patients :
           patient_states'[p] # patient_states[p] =>
               \A ch \in Channels :
                   LET v == Val(patient_states'[p][1][ch])
                   IN  /\ InEnvelope(ch, get_patient_profile(condition[p]), v)
                       /\ get_patient_profile(condition[p]) = NoBias =>
                              InNormal(ch, v)]_vars

-----------------------------------------------------------------------------
(* Properties of the acknowledgement of alerts *)

\* C29: acknowledgement is monotonic and is the only change made to a committed
\* alert: an alert whose is_acknowledged is true keeps it, every Alert row stays
\* as it was committed, field by field, and the step that acknowledges an alert is
\* no step of the ingestion cycle or of the risk scorer
C29_AcknowledgementOnly ==
    [][
        /\ acknowledged \subseteq acknowledged'
        /\ alertRows \subseteq alertRows'
        /\ acknowledged' # acknowledged => UNCHANGED <<ctxVars, schedVars, dbVars>>]_vars

\* two requests were answered, an alert is acknowledged and its acknowledgement
\* was published, and the cycle has committed a later alert
C29_Witness ==
    /\ acks = MaxAcks
    /\ acking = {}
    /\ \E a, b \in alertRows :
           /\ acknowledged = {a.id}
           /\ b.id > a.id
    /\ \E i \in 1..Len(emitted) : emitted[i].name = "alert:acknowledged"

====
